---- MODULE Spec2Model ----
(***************************************************************************)
(* commitsum: the terminal session state machine (internal/ui), the commit *)
(* retrieval pipeline (usecase.CommitUseCase) and the file cache           *)
(* (infrastructure/cache) it fronts.                                       *)
(*                                                                         *)
(* Three specifications share the variables:                               *)
(*   Spec       the session: key events, spinner ticks, fetch tasks that   *)
(*              run off the event loop and post commitsLoadedMsg           *)
(*   SpecFetch  GetCommitsForRange against the cache and the gh tool       *)
(*   SpecCache  FileCache.Set/Get under a clock and damaged files          *)
(***************************************************************************)
EXTENDS Integers, Sequences, FiniteSets, TLC

VARIABLES
    m,          \* ui.Model: the session state
    quit,       \* tea.Quit was returned: the program has exited
    tasks,      \* fetch closures running off the event loop
    inbox,      \* commitsLoadedMsg values posted and not yet handled
    spinTicks,  \* spinner.TickMsg values outstanding
    fetches,    \* fetches issued so far
    now,        \* the wall clock, UTC: [day |-> days since 1970-01-01, sec |-> 0..86399]
    tz,         \* time.Local's offset in hours
    ticks,      \* clock advances so far
    files,      \* the cache directory: key -> file
    ops,        \* cache writes (SpecCache) or fetches (SpecFetch) so far
    last,       \* what the last cache or fetch operation returned and called
    ghUser      \* the login `gh api user` prints

vars == <<m, quit, tasks, inbox, spinTicks, fetches, now, tz, ticks, files, ops, last, ghUser>>

(***************************************************************************)
(* Bounds of the model.                                                    *)
(***************************************************************************)
MaxFetches == 2     \* fetches one session issues
MaxTicks == 2       \* clock advances in one behaviour
MaxOps == 2         \* cache writes in one behaviour of SpecCache, fetches in one of SpecFetch
MaxKeys == 7        \* keys pressed in one session

(***************************************************************************)
(* Program constants.                                                      *)
(***************************************************************************)
SecondsPerDay == 86400
SecondsPerHour == 3600
EndOfDaySec == 86399        \* 23:59:59, update.go:94 and the use case's validateDateRange
TTLToday == 300             \* 5 * time.Minute
TTLOlder == 3600            \* time.Hour
WeekBack == 7               \* AddDate(0, 0, -7)
MonthBack == 30             \* AddDate(0, 0, -30)

None == "none"


(***************************************************************************)
(* Calendar: package time, as far as the program uses it.  A date text     *)
(* "YYYY-MM-DD" is the triple <<y, m, d>> of its three numbers; a text of  *)
(* another shape ("", "2026-03") is a tuple of another length.             *)
(***************************************************************************)
IsLeap(y) == (y % 4 = 0 /\ y % 100 # 0) \/ y % 400 = 0

DaysIn(y, mo) ==
    IF mo = 2 THEN (IF IsLeap(y) THEN 29 ELSE 28)
    ELSE IF mo \in {4, 6, 9, 11} THEN 30 ELSE 31

\* days since 1970-01-01 of a civil date (proleptic Gregorian)
DaysFromCivil(y, mo, d) ==
    LET yy == IF mo <= 2 THEN y - 1 ELSE y
        era == yy \div 400
        yoe == yy - era * 400
        mp == IF mo > 2 THEN mo - 3 ELSE mo + 9
        doy == (153 * mp + 2) \div 5 + d - 1
        doe == yoe * 365 + yoe \div 4 - yoe \div 100 + doy
    IN era * 146097 + doe - 719468

\* the civil date of a day number: the text time.Format("2006-01-02") prints
CivilFromDays(n) ==
    LET z == n + 719468
        era == z \div 146097
        doe == z - era * 146097
        yoe == (doe - doe \div 1460 + doe \div 36524 - doe \div 146096) \div 365
        doy == doe - (365 * yoe + yoe \div 4 - yoe \div 100)
        mp == (5 * doy + 2) \div 153
        d == doy - (153 * mp + 2) \div 5 + 1
        mo == IF mp < 10 THEN mp + 3 ELSE mp - 9
        y == yoe + era * 400 + (IF mo <= 2 THEN 1 ELSE 0)
    IN <<y, mo, d>>

IsDateText(t) ==
    /\ Len(t) = 3
    /\ t[1] \in 0..9999
    /\ t[2] \in 1..12
    /\ t[3] \in 1..DaysIn(t[1], t[2])

\* time.Parse("2006-01-02", t): the instant 00:00:00 UTC of that date, or an error
ParseDate(t) ==
    IF IsDateText(t)
    THEN [ok |-> TRUE, at |-> [day |-> DaysFromCivil(t[1], t[2], t[3]), sec |-> 0]]
    ELSE [ok |-> FALSE, at |-> [day |-> 0, sec |-> 0]]

\* an instant moved by s seconds, normalised
AddSeconds(t, s) ==
    LET total == t.sec + s
    IN [day |-> t.day + total \div SecondsPerDay, sec |-> total % SecondsPerDay]

\* Time.After
After(a, b) == a.day > b.day \/ (a.day = b.day /\ a.sec > b.sec)

\* seconds from b to a (both within the model's few days)
SecondsBetween(a, b) == (a.day - b.day) * SecondsPerDay + (a.sec - b.sec)

\* the calendar day time.Now() shows in the zone of offset off hours
LocalDay(t, off) == AddSeconds(t, off * SecondsPerHour).day

\* time.Now().Format("2006-01-02")
TodayText(t, off) == CivilFromDays(LocalDay(t, off))

\* time.Date(now.Year(), now.Month(), now.Day(), 23, 59, 59, 0, now.Location())
EndOfToday(t, off) ==
    AddSeconds([day |-> LocalDay(t, off), sec |-> 0], EndOfDaySec - off * SecondsPerHour)

(***************************************************************************)
(* Strings the program inspects character by character (repository names,  *)
(* filter patterns) are sequences of one-character strings.                *)
(***************************************************************************)
\* the byte value of the characters the model uses
CharCode(c) ==
    CASE c = "*" -> 42
      [] c = "-" -> 45
      [] c = "/" -> 47
      [] c = "?" -> 63
      [] c = "A" -> 65
      [] c = "B" -> 66
      [] c = "X" -> 88
      [] c = "[" -> 91
      [] c = "]" -> 93
      [] c = "a" -> 97
      [] c = "b" -> 98
      [] c = "x" -> 120
      [] c = "y" -> 121

\* Go's < on strings: bytewise, a proper prefix first
RECURSIVE StrLess(_, _)
StrLess(a, b) ==
    IF b = <<>> THEN FALSE
    ELSE IF a = <<>> THEN TRUE
    ELSE IF CharCode(Head(a)) # CharCode(Head(b)) THEN CharCode(Head(a)) < CharCode(Head(b))
    ELSE StrLess(Tail(a), Tail(b))

\* sort.Strings on the elements of a set
RECURSIVE SortStrings(_)
SortStrings(S) ==
    IF S = {} THEN <<>>
    ELSE LET least == CHOOSE a \in S : \A b \in S \ {a} : StrLess(a, b)
         IN <<least>> \o SortStrings(S \ {least})

Range(f) == {f[i] : i \in DOMAIN f}

(***************************************************************************)
(* The external commit source: what `gh search commits` holds for a query. *)
(***************************************************************************)
RepoAX == <<"a", "/", "x">>
RepoAY == <<"a", "/", "y">>
RepoBX == <<"B", "/", "x">>
Repos == {RepoAX, RepoAY, RepoBX}

NoCommits == [r \in {} |-> <<>>]

\* entity.CommitData with nothing in it (the nil fields of an error message)
EmptyData == [Commits |-> NoCommits, RepoList |-> <<>>, Warning |-> ""]

\* "start" or "start..end": the --committer-date argument and the cache key's last part
DotDot == -2
DateRangeQuery(startDate, endDate) ==
    IF startDate = endDate THEN startDate ELSE startDate \o <<DotDot>> \o endDate

\* the items the tool prints for a query: they differ from one day to the next,
\* and a span holds more than its last day
DayItems(t) ==
    CASE t[3] % 3 = 0 -> <<[repo |-> RepoAX, message |-> "fix"],
                          [repo |-> RepoBX, message |-> "add"],
                          [repo |-> RepoAX, message |-> "doc"]>>
      [] t[3] % 3 = 1 -> <<[repo |-> RepoAY, message |-> "wip"]>>
      [] OTHER        -> <<>>

SearchItems(query) ==
    IF Len(query) = 3 THEN DayItems(query)
    ELSE DayItems(SubSeq(query, 5, 7)) \o <<[repo |-> RepoAY, message |-> "old"]>>

\* a commitMap loop that drops the items without a repository only
GroupItemsKeepingUntitled(items) ==
    LET kept == SelectSeq(items, LAMBDA it : it.repo # <<>>)
    IN [r \in {kept[i].repo : i \in DOMAIN kept} |->
           LET mine == SelectSeq(kept, LAMBDA it : it.repo = r)
           IN [i \in DOMAIN mine |-> [Repository |-> r, Message |-> mine[i].message]]]

\* the commitMap loop of FetchCommitsByAuthorAndDate: the items that have a repository
\* and a message, grouped by repository, in the order of the answer
GroupItems(items) ==
    LET kept == SelectSeq(items, LAMBDA it : it.repo # <<>> /\ it.message # "")
    IN [r \in {kept[i].repo : i \in DOMAIN kept} |->
           LET mine == SelectSeq(kept, LAMBDA it : it.repo = r)
           IN [i \in DOMAIN mine |-> [Repository |-> r, Message |-> mine[i].message]]]

\* NewClient: limit, the --limit handed to gh search commits
DefaultLimit == 1000

CappedWarning == "Results capped at 1000 commits by GitHub; summary may be incomplete."

\* the number of commits a commitMap holds
RECURSIVE CountCommits(_)
CountCommits(commitMap) ==
    IF DOMAIN commitMap = {} THEN 0
    ELSE LET r == CHOOSE x \in DOMAIN commitMap : TRUE
         IN Len(commitMap[r]) + CountCommits([y \in DOMAIN commitMap \ {r} |-> commitMap[y]])

\* a FetchCommitsByAuthorAndDate that compares the cap with the commits it kept
BuildCommitDataCountingKept(items) ==
    LET commitMap == GroupItems(items)
    IN [Commits |-> commitMap, RepoList |-> SortStrings(DOMAIN commitMap),
        Warning |-> IF CountCommits(commitMap) >= DefaultLimit THEN CappedWarning ELSE ""]

\* Client.FetchCommitsByAuthorAndDate once the tool has answered with items
BuildCommitData(items) ==
    LET commitMap == GroupItems(items)
    IN [Commits |-> commitMap, RepoList |-> SortStrings(DOMAIN commitMap),
        Warning |-> IF Len(items) >= DefaultLimit THEN CappedWarning ELSE ""]

(***************************************************************************)
(* github.Error and the messages made of a failure of the tool.  The texts *)
(* the tool prints are strings; an error value is its text.                *)
(***************************************************************************)
UpperLetters == "ABCDEFGHIJKLMNOPQRSTUVWXYZ"
LowerLetters == "abcdefghijklmnopqrstuvwxyz"

\* strings.ToLower, one character
LowerOf(c) ==
    IF \E i \in 1..Len(UpperLetters) : SubSeq(UpperLetters, i, i) = c
    THEN LET i == CHOOSE k \in 1..Len(UpperLetters) : SubSeq(UpperLetters, k, k) = c
         IN SubSeq(LowerLetters, i, i)
    ELSE c

\* strings.ToLower
RECURSIVE StrToLower(_)
StrToLower(str) == IF Len(str) = 0 THEN "" ELSE LowerOf(Head(str)) \o StrToLower(Tail(str))

\* strings.Contains
StrContains(str, sub) ==
    \E i \in 1..(Len(str) - Len(sub) + 1) : SubSeq(str, i, i + Len(sub) - 1) = sub

\* what exec reports of a process that exits with a failure
ExitStatus == "exit status 1"

\* the command line of the commit search, as WrapError would record it
SearchCommand == "gh search commits"

\* WrapError: the *Error of a failed command
WrapError(cmd, output, err) == [Command |-> cmd, Output |-> output, Err |-> err]

\* Error.Error
ErrorText(e) ==
    "GitHub CLI error: " \o e.Err \o "\nCommand: " \o e.Command \o "\nOutput: " \o e.Output

\* Error.IsAuthError
IsAuthError(e) ==
    \/ StrContains(StrToLower(e.Output), "authentication")
    \/ StrContains(StrToLower(e.Output), "not logged in")
    \/ StrContains(StrToLower(e.Output), "unauthorized")

\* Error.IsRateLimitError
IsRateLimitError(e) ==
    \/ StrContains(StrToLower(e.Output), "rate limit")
    \/ StrContains(StrToLower(e.Output), "api rate limit exceeded")

\* Error.IsNetworkError
IsNetworkError(e) ==
    \/ StrContains(StrToLower(e.Output), "network")
    \/ StrContains(StrToLower(e.Output), "connection")
    \/ StrContains(StrToLower(e.Output), "timeout")
    \/ StrContains(StrToLower(e.Output), "dns")

AuthMessage == "GitHub authentication required. Run 'gh auth login' to authenticate."
RateLimitMessage == "GitHub API rate limit exceeded. Please wait and try again later."
NetworkMessage == "Network error. Please check your internet connection and try again."

\* GetUserFriendlyMessage of an *Error (the error of a command that ran and failed)
GetUserFriendlyMessage(e) ==
    IF IsAuthError(e) THEN AuthMessage
    ELSE IF IsRateLimitError(e) THEN RateLimitMessage
    ELSE IF IsNetworkError(e) THEN NetworkMessage
    ELSE IF StrContains(ErrorText(e), "executable file not found")
         THEN "GitHub CLI (gh) is not installed. Please install it from https://cli.github.com/"
    ELSE "Error: " \o ErrorText(e)

\* what gh prints when it fails: for want of a login, over the rate limit, with no
\* connection, for another reason
NotLoggedIn == "HTTP 401: Requires authentication (https://api.github.com/search/commits)"

RawOutputs ==
    {NotLoggedIn,
     "HTTP 403: API rate limit exceeded for user ID 1",
     "dial tcp: lookup api.github.com: connection refused",
     "Invalid search query"}

\* the error FetchCommitsByAuthorAndDate makes of a failed gh search commits
FetchErrorText(output) == "failed to fetch commits: " \o ExitStatus \o "\n" \o output

\* Client.FetchCommitsByAuthorAndDate: toolOk is whether the gh process succeeded,
\* output what it printed when it did not
FetchCommitsByAuthorAndDate(author, dateRange, toolOk, output) ==
    IF toolOk
    THEN [ok |-> TRUE, data |-> BuildCommitData(SearchItems(dateRange)), err |-> None]
    ELSE [ok |-> FALSE, data |-> EmptyData, err |-> FetchErrorText(output)]

(***************************************************************************)
(* FileCache: one file per key in the cache directory.                     *)
(***************************************************************************)
\* GetCacheKey: md5 of prefix-param-param, taken as injective
GetCacheKey(prefix, author, dateRange) == <<prefix, author, dateRange>>

NoFiles == [k \in {} |-> 0]

PutFile(fs, key, file) == [k \in DOMAIN fs \cup {key} |-> IF k = key THEN file ELSE fs[k]]

\* os.Remove
RemoveFile(fs, key) == [k \in DOMAIN fs \ {key} |-> fs[k]]

\* a file Set wrote: the JSON of Entry{Data, Timestamp, TTL}
EntryFile(data, at, ttl) == [kind |-> "entry", data |-> data, timestamp |-> at, ttl |-> ttl]

\* an expiry test that takes one hour for every entry, whatever its ttl
IsExpiredAfterAnHour(e, t) == SecondsBetween(t, e.timestamp) > TTLOlder

\* Entry.IsExpired: time.Since(e.Timestamp) > e.TTL
IsExpired(e, t) == SecondsBetween(t, e.timestamp) > e.ttl

\* FileCache.Set; write is how os.WriteFile ends: "ok", "fail" (nothing written) or
\* "partial" (the file is left truncated)
FileCacheSet(fs, key, data, ttl, t, write) ==
    CASE write = "ok"      -> [err |-> None, files |-> PutFile(fs, key, EntryFile(data, t, ttl))]
      [] write = "partial" -> [err |-> "failed to write cache file",
                               files |-> PutFile(fs, key, [EntryFile(data, t, ttl) EXCEPT !.kind = "garbage"])]
      [] OTHER             -> [err |-> "failed to write cache file", files |-> fs]

\* FileCache.Get; readOk is whether os.ReadFile could read the directory
FileCacheGet(fs, key, t, readOk) ==
    IF key \notin DOMAIN fs
    THEN [found |-> FALSE, err |-> None, data |-> EmptyData, files |-> fs]
    ELSE IF ~readOk
    THEN [found |-> FALSE, err |-> "failed to read cache file", data |-> EmptyData, files |-> fs]
    ELSE IF fs[key].kind = "garbage"
    THEN [found |-> FALSE, err |-> "failed to unmarshal cache entry", data |-> EmptyData,
          files |-> RemoveFile(fs, key)]
    ELSE IF IsExpired(fs[key], t)
    THEN [found |-> FALSE, err |-> None, data |-> EmptyData, files |-> RemoveFile(fs, key)]
    ELSE IF fs[key].kind = "badPayload"
    THEN [found |-> FALSE, err |-> "failed to unmarshal target data", data |-> EmptyData,
          files |-> fs]
    ELSE [found |-> TRUE, err |-> None, data |-> fs[key].data, files |-> fs]

(***************************************************************************)
(* CommitsCache                                                            *)
(***************************************************************************)
\* a test that takes every query that ends today for today
endsToday(dateRange, t, off) ==
    SubSeq(dateRange, Len(dateRange) - 2, Len(dateRange)) = TodayText(t, off)

\* isToday: the query is the text of the local date at the moment of the call
isToday(dateRange, t, off) == dateRange = TodayText(t, off)

\* CommitsCache.GetCommits
GetCommits(fs, author, dateRange, t, readOk) ==
    FileCacheGet(fs, GetCacheKey("commits", author, dateRange), t, readOk)

\* a SetCommits that files the data under the author alone
SetCommitsKeyedByAuthor(fs, author, dateRange, commitData, t, off, write) ==
    LET ttl == IF ~isToday(dateRange, t, off) THEN TTLOlder ELSE TTLToday
    IN FileCacheSet(fs, GetCacheKey("commits", author, <<>>), commitData, ttl, t, write)

\* CommitsCache.SetCommits
SetCommits(fs, author, dateRange, commitData, t, off, write) ==
    LET ttl == IF ~isToday(dateRange, t, off) THEN TTLOlder ELSE TTLToday
    IN FileCacheSet(fs, GetCacheKey("commits", author, dateRange), commitData, ttl, t, write)


(***************************************************************************)
(* CommitUseCase                                                           *)
(***************************************************************************)
\* validateDateRange: None, or the error
validateDateRange(startDate, endDate, t, off) ==
    LET startTime == ParseDate(startDate)
        endTime == ParseDate(endDate)
    IN IF ~startTime.ok THEN "invalid start date format"
       ELSE IF ~endTime.ok THEN "invalid end date format"
       ELSE IF After(startTime.at, endTime.at) THEN "start date cannot be after end date"
       ELSE IF After(endTime.at, EndOfToday(t, off)) THEN "end date cannot be in the future"
       ELSE None

\* what the surroundings do during one GetCommitsForRange: the login `gh api user`
\* prints (None: the tool failed), whether the cache file can be read, whether
\* `gh search commits` succeeds, how the cache write ends
FetchEnvs(login) ==
    {e \in [user : {login, None}, readOk : BOOLEAN, toolOk : BOOLEAN,
            write : {"ok", "fail", "partial"}, output : RawOutputs \cup {""}] :
        e.toolOk <=> e.output = ""}

\* a result of GetCommitsForRange: ok/data/err are what it returns, files is the cache
\* directory afterwards, calls the external tool processes it started (in order),
\* readErr and writeErr what the cache calls returned to it (None: no error, or no call)
Failed(e, fs, calls, readErr) ==
    [ok |-> FALSE, data |-> EmptyData, err |-> e, files |-> fs, calls |-> calls,
     readErr |-> readErr, writeErr |-> None]

Fetched(data, fs, calls, readErr, writeErr) ==
    [ok |-> TRUE, data |-> data, err |-> None, files |-> fs, calls |-> calls,
     readErr |-> readErr, writeErr |-> writeErr]

\* GetCommitsForRange with a cache read error treated as fatal
FetchThroughCacheStrict(fs, ghLogin, dateRange, t, off, env) ==
    LET cached == GetCommits(fs, ghLogin, dateRange, t, env.readOk)
        fetched == FetchCommitsByAuthorAndDate(ghLogin, dateRange, env.toolOk, env.output)
        stored == SetCommits(cached.files, ghLogin, dateRange, fetched.data, t, off, env.write)
    IN IF cached.err # None
       THEN Failed(cached.err, cached.files, <<"user">>, cached.err)
       ELSE IF cached.found
       THEN Fetched(cached.data, cached.files, <<"user">>, None, None)
       ELSE IF ~fetched.ok
       THEN Failed(fetched.err, cached.files, <<"user", "search">>, None)
       ELSE Fetched(fetched.data, stored.files, <<"user", "search">>, None, stored.err)

\* a GetCommitsForRange that stores what it has when the search has failed
FetchThroughCacheStoringFailure(fs, ghLogin, dateRange, t, off, env) ==
    LET cached == GetCommits(fs, ghLogin, dateRange, t, env.readOk)
        fetched == FetchCommitsByAuthorAndDate(ghLogin, dateRange, env.toolOk, env.output)
        stored == SetCommits(cached.files, ghLogin, dateRange, fetched.data, t, off, env.write)
    IN IF cached.err = None /\ cached.found
       THEN Fetched(cached.data, cached.files, <<"user">>, None, None)
       ELSE IF ~fetched.ok
       THEN Failed(fetched.err, stored.files, <<"user", "search">>, cached.err)
       ELSE Fetched(fetched.data, stored.files, <<"user", "search">>, cached.err, stored.err)

\* GetCommitsForRange, from the cache read on
FetchThroughCache(fs, ghLogin, dateRange, t, off, env) ==
    LET cached == GetCommits(fs, ghLogin, dateRange, t, env.readOk)
        fetched == FetchCommitsByAuthorAndDate(ghLogin, dateRange, env.toolOk, env.output)
        stored == SetCommits(cached.files, ghLogin, dateRange, fetched.data, t, off, env.write)
    IN IF cached.err = None /\ cached.found
       THEN Fetched(cached.data, cached.files, <<"user">>, None, None)
       ELSE IF ~fetched.ok
       THEN Failed(fetched.err, cached.files, <<"user", "search">>, cached.err)
       ELSE Fetched(fetched.data, stored.files, <<"user", "search">>, cached.err, stored.err)

\* CommitUseCase.GetCommitsForRange: the result, the cache directory afterwards and the
\* external tool processes it started, in order
GetCommitsForRange(fs, startDate, endDate, t, off, env) ==
    LET invalid == validateDateRange(startDate, endDate, t, off)
    IN IF invalid # None THEN Failed(invalid, fs, <<>>, None)
       ELSE IF env.user = None THEN Failed("failed to get GitHub user", fs, <<"user">>, None)
       ELSE FetchThroughCache(fs, env.user, DateRangeQuery(startDate, endDate), t, off, env)


(***************************************************************************)
(* CommitUseCase: pattern filter and statistics.                           *)
(***************************************************************************)
\* strings.ToLower on one character
LowerChar(c) == LowerOf(c)

ToLower(str) == [i \in DOMAIN str |-> LowerChar(str[i])]

\* strings.Contains
Contains(str, sub) ==
    \E i \in 0..(Len(str) - Len(sub)) : SubSeq(str, i + 1, i + Len(sub)) = sub

\* strings.ContainsAny(pattern, "*?[]")
IsGlob(pattern) == \E i \in DOMAIN pattern : pattern[i] \in {"*", "?", "[", "]"}

\* a matcher whose * stops at a path separator
RECURSIVE GlobMatchStarWithinSegment(_, _)
GlobMatchStarWithinSegment(pattern, name) ==
    IF pattern = <<>> THEN name = <<>>
    ELSE IF Head(pattern) = "*"
    THEN \/ GlobMatchStarWithinSegment(Tail(pattern), name)
         \/ (name # <<>> /\ Head(name) # "/" /\ GlobMatchStarWithinSegment(pattern, Tail(name)))
    ELSE IF name = <<>> THEN FALSE
    ELSE IF Head(pattern) = "?" THEN GlobMatchStarWithinSegment(Tail(pattern), Tail(name))
    ELSE Head(pattern) = Head(name) /\ GlobMatchStarWithinSegment(Tail(pattern), Tail(name))

\* the compiled expression ^...$ of a quoted pattern: * became .*, ? became ., every
\* other character stands for itself
RECURSIVE GlobMatch(_, _)
GlobMatch(pattern, name) ==
    IF pattern = <<>> THEN name = <<>>
    ELSE IF Head(pattern) = "*"
    THEN GlobMatch(Tail(pattern), name) \/ (name # <<>> /\ GlobMatch(pattern, Tail(name)))
    ELSE IF name = <<>> THEN FALSE
    ELSE IF Head(pattern) = "?" THEN GlobMatch(Tail(pattern), Tail(name))
    ELSE Head(pattern) = Head(name) /\ GlobMatch(Tail(pattern), Tail(name))

\* matchPattern (regexp.Compile of a quoted pattern does not fail, so the fallback
\* branch is never taken)
matchPattern(pattern, name) ==
    IF ~IsGlob(ToLower(pattern)) THEN Contains(ToLower(name), ToLower(pattern))
    ELSE GlobMatch(ToLower(pattern), ToLower(name))

\* the loop of FilterReposByPattern: the names the pattern matches, in order
RECURSIVE SelectIn(_, _)
SelectIn(seq, pattern) ==
    IF seq = <<>> THEN <<>>
    ELSE (IF matchPattern(pattern, Head(seq)) THEN <<Head(seq)>> ELSE <<>>)
             \o SelectIn(Tail(seq), pattern)

\* a loop that puts each match in front of the ones found before
RECURSIVE SelectInNewestFirst(_, _)
SelectInNewestFirst(seq, pattern) ==
    IF seq = <<>> THEN <<>>
    ELSE SelectInNewestFirst(Tail(seq), pattern)
             \o (IF matchPattern(pattern, Head(seq)) THEN <<Head(seq)>> ELSE <<>>)

\* a FilterReposByPattern whose result is in the reverse order
FilterReposByPatternNewestFirst(repos, pattern) ==
    IF pattern = <<>> THEN repos ELSE SelectInNewestFirst(repos, pattern)

\* FilterReposByPattern
FilterReposByPattern(repos, pattern) ==
    IF pattern = <<>> THEN repos ELSE SelectIn(repos, pattern)

\* entity.Statistics before the loop of CalculateStatistics
NoStats ==
    [TotalCommits |-> 0, TotalRepositories |-> 0, CommitsPerRepo |-> [r \in {} |-> 0],
     MostActiveRepo |-> <<>>, MaxCommits |-> 0]

\* the loop of CalculateStatistics over the map's keys in the order the runtime
\* yields them
RECURSIVE StatsLoop(_, _, _, _)
StatsLoop(order, commits, selected, stats) ==
    IF order = <<>> THEN stats
    ELSE LET repo == Head(order)
             count == Len(commits[repo])
             counted == [stats EXCEPT
                 !.CommitsPerRepo = [r \in DOMAIN @ \cup {repo} |-> IF r = repo THEN count ELSE @[r]],
                 !.TotalCommits = @ + count,
                 !.TotalRepositories = @ + 1,
                 !.MaxCommits = IF count > @ THEN count ELSE @,
                 !.MostActiveRepo = IF count > stats.MaxCommits THEN repo ELSE @]
         IN StatsLoop(Tail(order), commits, selected,
                      IF ~selected[repo] THEN stats ELSE counted)

\* the orders a range over a map with these keys can take
Orders(keys) ==
    {o \in [1..Cardinality(keys) -> keys] : \A i, j \in DOMAIN o : i # j => o[i] # o[j]}

\* a CalculateStatistics whose total counts the commits of every repository of the
\* map, selected or not
CalculateStatisticsTotalOfAll(commits, selected, order) ==
    [StatsLoop(order, commits, selected, NoStats) EXCEPT !.TotalCommits = CountCommits(commits)]

\* CalculateStatistics, the map iterated in the given order
CalculateStatistics(commits, selected, order) == StatsLoop(order, commits, selected, NoStats)

\* a GetSelectedReposSorted that ranges over the selection instead of the commit map
GetSelectedReposSortedOfSelection(commits, selected) ==
    SortStrings({repo \in DOMAIN selected : selected[repo]})

\* GetSelectedReposSorted
GetSelectedReposSorted(commits, selected) ==
    SortStrings({repo \in DOMAIN commits : selected[repo]})

\* commits[repo] of a Go map: no commits for a key the map does not hold
CommitsOf(commits, repo) == IF repo \in DOMAIN commits THEN commits[repo] ELSE <<>>

\* the total of a sequence of numbers
RECURSIVE SumSeq(_)
SumSeq(ns) == IF ns = <<>> THEN 0 ELSE Head(ns) + SumSeq(Tail(ns))

\* viewSummary: the count of the selected repositories' commits in the header, then
\* each selected repository with its commit messages
SummaryListing(commits, selected) ==
    LET repos == GetSelectedReposSorted(commits, selected)
    IN [totalCommits |-> SumSeq([i \in DOMAIN repos |-> Len(CommitsOf(commits, repos[i]))]),
        repos |-> [i \in DOMAIN repos |->
                     [repo |-> repos[i],
                      messages |-> [k \in DOMAIN CommitsOf(commits, repos[i]) |->
                                       CommitsOf(commits, repos[i])[k].Message]]]]

\* what every export lists: each selected repository, in ascending order, with its
\* commit messages
ExportedCommits(commits, selected) ==
    LET repos == GetSelectedReposSorted(commits, selected)
    IN [i \in DOMAIN repos |->
           [repo |-> repos[i],
            messages |-> [k \in DOMAIN CommitsOf(commits, repos[i]) |->
                             CommitsOf(commits, repos[i])[k].Message]]]

\* ExportToText: a header with the date label, the repositories, a statistics footer
ExportToText(commits, selected, dateStr, stats) ==
    [format |-> "text", date |-> dateStr, commits |-> ExportedCommits(commits, selected),
     total_repos |-> stats.TotalRepositories, total_commits |-> stats.TotalCommits,
     most_active |-> stats.MostActiveRepo]

\* ExportToMarkdown: title, date, statistics section, commits section
ExportToMarkdown(commits, selected, dateStr, stats) ==
    [format |-> "markdown", date |-> dateStr, commits |-> ExportedCommits(commits, selected),
     total_repos |-> stats.TotalRepositories, total_commits |-> stats.TotalCommits,
     most_active |-> stats.MostActiveRepo]

\* ExportToJSON: {date, total_repos, total_commits, commits, stats}
ExportToJSON(commits, selected, dateStr, stats) ==
    [format |-> "json", date |-> dateStr, commits |-> ExportedCommits(commits, selected),
     total_repos |-> stats.TotalRepositories, total_commits |-> stats.TotalCommits,
     most_active |-> stats.MostActiveRepo]

(***************************************************************************)
(* The surroundings: clock, time zone, login, damaged cache files.         *)
(***************************************************************************)
\* 2026-03-03, the day the model's clock starts in
StartDay == DaysFromCivil(2026, 3, 3)

\* time.Local: west of UTC, UTC, east of UTC
TzOffsets == {-8, 0, 3}

\* the clock starts at 23:55:00 local time
StartClock(off) == AddSeconds([day |-> StartDay, sec |-> 0], 86100 - off * SecondsPerHour)

\* steps the clock advances by: one second, five minutes, one hour
TickDeltas == {1, 300, 3600}

Users == {"alice", "bob"}

NoOp == [op |-> "none"]

EnvInit ==
    /\ tz \in TzOffsets
    /\ now = StartClock(tz)
    /\ ticks = 0
    /\ ghUser \in Users
    /\ files = NoFiles
    /\ ops = 0
    /\ last = NoOp

\* time passes
Advance ==
    /\ ticks < MaxTicks
    /\ \E d \in TickDeltas : now' = AddSeconds(now, d)
    /\ ticks' = ticks + 1
    /\ UNCHANGED <<m, quit, tasks, inbox, spinTicks, fetches, tz, files, ops, last, ghUser>>

\* a cache file is damaged from outside the program: its bytes stop being an Entry
\* ("garbage"), or its data stops being a cachedCommitData ("badPayload")
Damage ==
    /\ \E key \in DOMAIN files, kind \in {"garbage", "badPayload"} :
          /\ files[key].kind = "entry"
          /\ files' = [files EXCEPT ![key].kind = kind]
    /\ UNCHANGED <<m, quit, tasks, inbox, spinTicks, fetches, now, tz, ticks, ops, last, ghUser>>

(***************************************************************************)
(* SpecCache: FileCache.Set and FileCache.Get called in any order.         *)
(***************************************************************************)
CacheKeys == {GetCacheKey("commits", u, CivilFromDays(StartDay)) : u \in Users}
CacheData == {BuildCommitData(DayItems(CivilFromDays(StartDay + i))) : i \in 0..1}
CacheTTLs == {1, TTLToday, TTLOlder}

\* the file under key
FileAt(fs, key) == IF key \in DOMAIN fs THEN fs[key] ELSE [kind |-> "absent"]

CacheSet ==
    /\ ops < MaxOps
    /\ \E key \in CacheKeys, data \in CacheData, ttl \in CacheTTLs, write \in {"ok", "fail", "partial"} :
       \E r \in {FileCacheSet(files, key, data, ttl, now, write)} :
             /\ files' = r.files
             /\ ops' = ops + 1
             /\ last' = [op |-> "set", key |-> key, before |-> FileAt(files, key),
                         at |-> now, readOk |-> TRUE, err |-> r.err, found |-> FALSE,
                         data |-> data]
    /\ UNCHANGED <<m, quit, tasks, inbox, spinTicks, fetches, now, tz, ticks, ghUser>>

CacheGet ==
    /\ \E key \in CacheKeys, readOk \in BOOLEAN :
       \E r \in {FileCacheGet(files, key, now, readOk)} :
             /\ files' = r.files
             /\ last' = [op |-> "get", key |-> key, before |-> FileAt(files, key),
                         at |-> now, readOk |-> readOk, err |-> r.err, found |-> r.found,
                         data |-> r.data]
    /\ UNCHANGED <<m, quit, tasks, inbox, spinTicks, fetches, now, tz, ticks, ops, ghUser>>

UIIdle ==
    /\ m = None
    /\ quit = FALSE
    /\ tasks = <<>>
    /\ inbox = <<>>
    /\ spinTicks = 0
    /\ fetches = 0

InitCache == UIIdle /\ EnvInit /\ tz = 0 /\ ghUser = "alice"

NextCache == CacheSet \/ CacheGet \/ Advance \/ Damage

SpecCache == InitCache /\ [][NextCache]_vars

(***************************************************************************)
(* SpecInvalidate: CommitsCache.Invalidate, GetCommits and SetCommits on a *)
(* cache directory that earlier runs have left entries in, for two users   *)
(* and two date ranges.                                                    *)
(***************************************************************************)
\* a selective Invalidate: it removes the files of the author's keys alone
InvalidateOfAuthorOnly(fs, author) ==
    [err |-> None,
     files |-> [k \in {x \in DOMAIN fs : x[2] # author} |-> fs[k]]]

\* the loop of Invalidate: os.Remove on each of the files
RECURSIVE RemoveEach(_, _)
RemoveEach(fs, keys) ==
    IF keys = {} THEN fs
    ELSE LET key == CHOOSE k \in keys : TRUE
         IN RemoveEach(RemoveFile(fs, key), keys \ {key})

\* CommitsCache.Invalidate: every file *.json of the cache directory is a file of a
\* key, and author is used for the log line alone
Invalidate(fs, author) == [err |-> None, files |-> RemoveEach(fs, DOMAIN fs)]

\* the date ranges of the stored entries: today, and the week up to today
StoredRanges ==
    {CivilFromDays(StartDay),
     DateRangeQuery(CivilFromDays(StartDay - WeekBack), CivilFromDays(StartDay))}

StoredKeys == {GetCacheKey("commits", u, r) : u \in Users, r \in StoredRanges}

\* what earlier runs have left under a key: nothing, an entry, a truncated file
StoredFiles(t) ==
    {[kind |-> "absent"],
     EntryFile(BuildCommitData(DayItems(CivilFromDays(StartDay))), t, TTLOlder),
     [EntryFile(EmptyData, t, TTLOlder) EXCEPT !.kind = "garbage"]}

\* the cache directories earlier runs have left
Stores(t) ==
    {[k \in {x \in StoredKeys : left[x].kind # "absent"} |-> left[k]] :
        left \in [StoredKeys -> StoredFiles(t)]}

StoreInvalidate ==
    /\ ops < MaxOps
    /\ \E author \in Users :
       \E r \in {Invalidate(files, author)} :
          /\ files' = r.files
          /\ last' = [op |-> "invalidate", author |-> author, err |-> r.err,
                      removed |-> DOMAIN files]
    /\ ops' = ops + 1
    /\ UNCHANGED <<m, quit, tasks, inbox, spinTicks, fetches, now, tz, ticks, ghUser>>

StoreGet ==
    /\ ops < MaxOps
    /\ \E author \in Users, range \in StoredRanges :
       \E r \in {GetCommits(files, author, range, now, TRUE)} :
          /\ files' = r.files
          /\ last' = [op |-> "get", author |-> author, range |-> range,
                      found |-> r.found, err |-> r.err, after |-> last,
                      data |-> r.data, at |-> now,
                      before |-> FileAt(files, GetCacheKey("commits", author, range))]
    /\ ops' = ops + 1
    /\ UNCHANGED <<m, quit, tasks, inbox, spinTicks, fetches, now, tz, ticks, ghUser>>

StoreSet ==
    /\ ops < MaxOps
    /\ \E author \in Users, range \in StoredRanges, data \in CacheData \cup {EmptyData},
          write \in {"ok", "fail"} :
       \E r \in {SetCommits(files, author, range, data, now, tz, write)} :
          /\ files' = r.files
          /\ last' = [op |-> "set", author |-> author, range |-> range, err |-> r.err,
                      data |-> data, at |-> now]
    /\ ops' = ops + 1
    /\ UNCHANGED <<m, quit, tasks, inbox, spinTicks, fetches, now, tz, ticks, ghUser>>

InitInvalidate ==
    /\ UIIdle
    /\ tz = 0 /\ now = StartClock(tz) /\ ticks = 0 /\ ghUser = "alice"
    /\ ops = 0 /\ last = NoOp
    /\ files \in Stores(now)

NextInvalidate == StoreInvalidate \/ StoreGet \/ StoreSet \/ Advance

SpecInvalidate == InitInvalidate /\ [][NextInvalidate]_vars

(***************************************************************************)
(* SpecFetch: GetCommitsForRange called with any dates, in any surroundings.*)
(***************************************************************************)
\* the date pairs a caller passes: today, tomorrow, the week up to today, the week up
\* to tomorrow, a start after its end, a text that is no date (days of the clock's start)
FetchRanges ==
    LET d(i) == CivilFromDays(StartDay + i)
    IN {<<d(0), d(0)>>, <<d(1), d(1)>>, <<d(0 - WeekBack), d(0)>>, <<d(0 - WeekBack), d(1)>>,
        <<d(0), d(0 - WeekBack)>>, <<<<2026, 2, 30>>, d(0)>>}

Fetch ==
    /\ ops < MaxOps
    /\ \E range \in FetchRanges, env \in FetchEnvs(ghUser) :
       \E r \in {GetCommitsForRange(files, range[1], range[2], now, tz, env)} :
          LET key == GetCacheKey("commits", ghUser, DateRangeQuery(range[1], range[2]))
          IN /\ files' = r.files
             /\ ops' = ops + 1
             /\ last' = [op |-> "fetch", key |-> key, before |-> FileAt(files, key),
                         at |-> now, ok |-> r.ok, err |-> r.err,
                         data |-> r.data, calls |-> r.calls,
                         readErr |-> r.readErr, writeErr |-> r.writeErr,
                         output |-> env.output]
    /\ UNCHANGED <<m, quit, tasks, inbox, spinTicks, fetches, now, tz, ticks, ghUser>>

InitFetch == UIIdle /\ EnvInit /\ ghUser = "alice"

NextFetch == Fetch \/ Advance \/ Damage

SpecFetch == InitFetch /\ [][NextFetch]_vars


(***************************************************************************)
(* SpecStartup: main builds the use case from what NewCommitsCache         *)
(* returned, whether it failed or not, and the session's closures call     *)
(* GetCommitsForRange on it.                                               *)
(***************************************************************************)
\* a nil pointer
NilPointer == "nil"

\* NewCommitsCache: a *CommitsCache and an error; NewFileCache fails when the home
\* directory is unknown or the cache directory cannot be made
NewCommitsCache(dirOk) ==
    IF dirOk THEN [cache |-> "CommitsCache", err |-> None]
    ELSE [cache |-> NilPointer, err |-> "failed to create cache directory"]

\* NewCommitUseCase(githubClient, commitsCache): the *CommitsCache becomes the value of
\* the field cache, of the interface type CacheRepository. An interface value made
\* from a pointer carries the pointer's type, nil pointer or not
NewCommitUseCase(commitsCache) ==
    [cache |-> [type |-> "*CommitsCache", value |-> commitsCache]]

\* uc.cache != nil: an interface value is nil only when it carries no type
CacheIsSet(uc) == uc.cache.type # None

\* GetCommitsForRange stopped by a runtime panic in the closure's goroutine: nothing
\* is returned, so no commitsLoadedMsg is posted
Panicked(fs, calls) ==
    [ok |-> FALSE, data |-> EmptyData, err |-> "panic: nil pointer dereference",
     files |-> fs, calls |-> calls, readErr |-> None, writeErr |-> None]

\* GetCommitsForRange on the use case main built. GetCommits on a nil *CommitsCache
\* reads cc.cache, which panics
GetCommitsForRangeOf(uc, fs, startDate, endDate, t, off, env) ==
    LET invalid == validateDateRange(startDate, endDate, t, off)
        fetched == FetchCommitsByAuthorAndDate(env.user, DateRangeQuery(startDate, endDate),
                                               env.toolOk, env.output)
    IN IF invalid # None THEN Failed(invalid, fs, <<>>, None)
       ELSE IF env.user = None THEN Failed("failed to get GitHub user", fs, <<"user">>, None)
       ELSE IF CacheIsSet(uc) /\ uc.cache.value = NilPointer THEN Panicked(fs, <<"user">>)
       ELSE IF CacheIsSet(uc)
       THEN FetchThroughCache(fs, env.user, DateRangeQuery(startDate, endDate), t, off, env)
       ELSE IF ~fetched.ok THEN Failed(fetched.err, fs, <<"user", "search">>, None)
       ELSE Fetched(fetched.data, fs, <<"user", "search">>, None, None)

\* a closure of loadCommits runs GetCommitsForRange on the use case
StartupFetch ==
    /\ ops < MaxOps
    /\ last.op \in {"main", "startupFetch"} /\ ~last.panicked
    /\ \E range \in FetchRanges, env \in FetchEnvs(ghUser) :
       \E r \in {GetCommitsForRangeOf(last.uc, files, range[1], range[2], now, tz, env)} :
          /\ files' = r.files
          /\ ops' = ops + 1
          /\ last' = [op |-> "startupFetch", uc |-> last.uc, cacheErr |-> last.cacheErr,
                      panicked |-> (r = Panicked(files, <<"user">>)),
                      invalid |-> validateDateRange(range[1], range[2], now, tz),
                      user |-> env.user, ok |-> r.ok, err |-> r.err, data |-> r.data,
                      calls |-> r.calls, before |-> files]
    /\ UNCHANGED <<m, quit, tasks, inbox, spinTicks, fetches, now, tz, ticks, ghUser>>

\* main after NewCommitUseCase: the cache was initialised or it was not
InitStartup ==
    /\ UIIdle
    /\ tz = 0 /\ now = StartClock(tz) /\ ticks = 0 /\ ghUser = "alice"
    /\ files = NoFiles /\ ops = 0
    /\ last \in {[op |-> "main", uc |-> NewCommitUseCase(NewCommitsCache(dirOk).cache),
                   cacheErr |-> NewCommitsCache(dirOk).err, panicked |-> FALSE] :
                     dirOk \in BOOLEAN}

NextStartup == StartupFetch

SpecStartup == InitStartup /\ [][NextStartup]_vars


(***************************************************************************)
(* SpecSearch: FetchCommitsByAuthorAndDate on answers of the tool of any   *)
(* length around the cap, with items that lack a repository or a message.  *)
(***************************************************************************)
\* the numbers of items the tool prints
SearchCounts == (0..8) \cup ((DefaultLimit - 5)..(DefaultLimit + 5))

\* what the i-th item of an answer looks like
SearchShapes == {"whole", "noRepoThird", "noMessageEven", "noRepoAll", "twoRepos", "mixed"}

ShapedItem(shape, i) ==
    CASE shape = "whole"         -> [repo |-> RepoAX, message |-> "fix"]
      [] shape = "noRepoThird"   -> [repo |-> IF i % 3 = 0 THEN <<>> ELSE RepoAX, message |-> "fix"]
      [] shape = "noMessageEven" -> [repo |-> RepoAY, message |-> IF i % 2 = 0 THEN "" ELSE "wip"]
      [] shape = "noRepoAll"     -> [repo |-> <<>>, message |-> "fix"]
      [] shape = "mixed"         ->
            [repo |-> CASE i % 4 = 1 -> RepoAY
                        [] i % 4 = 2 -> <<>>
                        [] i % 4 = 3 -> RepoBX
                        [] OTHER     -> RepoAX,
             message |-> CASE i % 4 = 0 -> ""
                           [] i % 3 = 0 -> "doc"
                           [] i % 3 = 1 -> "fix"
                           [] OTHER     -> "add"]
      [] OTHER                   -> [repo |-> IF i % 2 = 0 THEN RepoAX ELSE RepoBX, message |-> "add"]

ShapedItems(shape, n) == [i \in 1..n |-> ShapedItem(shape, i)]

Search ==
    /\ ops < MaxOps
    /\ \E n \in SearchCounts, shape \in SearchShapes :
       \E r \in {BuildCommitData(ShapedItems(shape, n))} :
          /\ ops' = ops + 1
          /\ last' = [op |-> "search", count |-> n, shape |-> shape,
                      kept |-> CountCommits(r.Commits), repoList |-> r.RepoList,
                      warning |-> r.Warning, commits |-> r.Commits]
    /\ UNCHANGED <<m, quit, tasks, inbox, spinTicks, fetches, now, tz, ticks, files, ghUser>>

InitSearch == UIIdle /\ EnvInit /\ tz = 0 /\ ghUser = "alice"

NextSearch == Search

SpecSearch == InitSearch /\ [][NextSearch]_vars

(***************************************************************************)
(* SpecStats: CalculateStatistics, the Summary listing and the exports on  *)
(* any commit map over the repositories, any selection and any order of    *)
(* the map's iteration.                                                    *)
(***************************************************************************)
\* the most commits one repository has in the maps tried
MaxPerRepo == 3

\* the commit map in which repo has counts[repo] commits (none: not in the map)
CommitMapOf(counts) ==
    [repo \in {r \in DOMAIN counts : counts[r] > 0} |->
        [i \in 1..counts[repo] |-> [Repository |-> repo, Message |-> "fix"]]]

\* the calls tried: a commit map, a selection, an order of the map's iteration
StatsInputs ==
    UNION {{[op |-> "input", commits |-> CommitMapOf(counts), selected |-> selected,
             order |-> order] :
               selected \in [Repos -> BOOLEAN], order \in Orders(DOMAIN CommitMapOf(counts))} :
           counts \in [Repos -> 0..MaxPerRepo]}

Compute ==
    /\ last.op = "input"
    /\ last' = [op |-> "stats", commits |-> last.commits, selected |-> last.selected,
                order |-> last.order,
                stats |-> CalculateStatistics(last.commits, last.selected, last.order),
                listing |-> SummaryListing(last.commits, last.selected),
                exports |-> LET stats == CalculateStatistics(last.commits, last.selected,
                                                             last.order)
                                date == TodayText(now, tz)
                            IN <<ExportToText(last.commits, last.selected, date, stats),
                                 ExportToMarkdown(last.commits, last.selected, date, stats),
                                 ExportToJSON(last.commits, last.selected, date, stats)>>]
    /\ UNCHANGED <<m, quit, tasks, inbox, spinTicks, fetches, now, tz, ticks, files, ops, ghUser>>

InitStats ==
    /\ UIIdle
    /\ tz = 0 /\ now = StartClock(tz) /\ ticks = 0 /\ ghUser = "alice"
    /\ files = NoFiles /\ ops = 0
    /\ last \in StatsInputs

NextStats == Compute

SpecStats == InitStats /\ [][NextStats]_vars

(***************************************************************************)
(* SpecFilter: FilterReposByPattern and matchPattern on lists, names and   *)
(* patterns of every content up to a length, and on the names and patterns *)
(* of the documentation.                                                   *)
(***************************************************************************)
MaxNameLen == 3
MaxPatternLen == 3
MaxListLen == 3

\* the sequences of at most n elements of S
SeqsUpTo(S, n) == UNION {[1..k -> S] : k \in 0..n}

\* the characters of names and of patterns
NameChars == {"a", "B", "/"}
PatternChars == {"a", "B", "*", "?", "["}

\* the names and patterns the documentation of matchPattern speaks of
DocCases ==
    {[pattern |-> <<"*", "p", "r", "o", "j", "e", "c", "t", "*">>,
      name |-> <<"o", "r", "g", "/", "m", "y", "-", "p", "r", "o", "j", "e", "c", "t">>],
     [pattern |-> <<"O", "r", "g", "/", "*">>,
      name |-> <<"o", "r", "g", "/", "r", "e", "p", "o">>],
     [pattern |-> <<"a", "b", "c">>, name |-> <<"x", "a", "b", "c", "x">>]}

MatchInputs ==
    {[op |-> "matchInput", pattern |-> p, name |-> n] :
        p \in SeqsUpTo(PatternChars, MaxPatternLen), n \in SeqsUpTo(NameChars, MaxNameLen)}
    \cup {[op |-> "matchInput", pattern |-> c.pattern, name |-> c.name] : c \in DocCases}

\* the repo lists to filter: any names, repeated or not, in any order
ListedNames == {<<"a", "/", "b">>, <<"B", "/", "a">>, <<"b">>, <<"a", "/", "a", "b">>}
ListPatterns == {<<>>, <<"b">>, <<"B">>, <<"a", "/", "*">>, <<"*", "a">>, <<"?">>, <<"[">>}

FilterInputs ==
    {[op |-> "filterInput", pattern |-> p, repos |-> l] :
        p \in ListPatterns, l \in SeqsUpTo(ListedNames, MaxListLen)}

Match ==
    /\ last.op = "matchInput"
    /\ last' = [op |-> "match", pattern |-> last.pattern, name |-> last.name,
                matched |-> matchPattern(last.pattern, last.name)]
    /\ UNCHANGED <<m, quit, tasks, inbox, spinTicks, fetches, now, tz, ticks, files, ops, ghUser>>

Filter ==
    /\ last.op = "filterInput"
    /\ last' = [op |-> "filter", pattern |-> last.pattern, repos |-> last.repos,
                filtered |-> FilterReposByPattern(last.repos, last.pattern)]
    /\ UNCHANGED <<m, quit, tasks, inbox, spinTicks, fetches, now, tz, ticks, files, ops, ghUser>>

InitFilter ==
    /\ UIIdle
    /\ tz = 0 /\ now = StartClock(tz) /\ ticks = 0 /\ ghUser = "alice"
    /\ files = NoFiles /\ ops = 0
    /\ last \in MatchInputs \cup FilterInputs

NextFilter == Match \/ Filter

SpecFilter == InitFilter /\ [][NextFilter]_vars

(***************************************************************************)
(* entity: date range presets and the display of a date range.             *)
(***************************************************************************)
DateRangePresets == <<"today", "yesterday", "week", "month", "custom">>

\* time.Now().AddDate(0, 0, -back).Format("2006-01-02")
DaysAgoText(t, off, back) == CivilFromDays(LocalDay(t, off) - back)

\* GetDateRange
GetDateRange(preset, t, off) ==
    CASE preset = "today"     -> [StartDate |-> TodayText(t, off), EndDate |-> TodayText(t, off)]
      [] preset = "yesterday" -> [StartDate |-> DaysAgoText(t, off, 1), EndDate |-> DaysAgoText(t, off, 1)]
      [] preset = "week"      -> [StartDate |-> DaysAgoText(t, off, WeekBack), EndDate |-> TodayText(t, off)]
      [] preset = "month"     -> [StartDate |-> DaysAgoText(t, off, MonthBack), EndDate |-> TodayText(t, off)]
      [] OTHER                -> [StartDate |-> TodayText(t, off), EndDate |-> TodayText(t, off)]

\* the " -> " between the two dates of a label
Arrow == -3

\* a FormatDateDisplay that writes every range with two sides
FormatDateDisplayTwoSided(startDate, endDate) == startDate \o <<Arrow>> \o endDate

\* FormatDateDisplay
FormatDateDisplay(startDate, endDate) ==
    IF startDate = endDate THEN startDate ELSE startDate \o <<Arrow>> \o endDate

(***************************************************************************)
(* SpecDisplay: FormatDateDisplay on the dates around the clock's start,   *)
(* in either order, and on a text that is no date.                         *)
(***************************************************************************)
MaxDaysApart == 4

DisplayedDates ==
    {CivilFromDays(StartDay + i) : i \in (0 - MaxDaysApart)..MaxDaysApart} \cup {<<2026, 2, 30>>}

Display ==
    /\ last.op = "displayInput"
    /\ last' = [op |-> "display", startDate |-> last.startDate, endDate |-> last.endDate,
                label |-> FormatDateDisplay(last.startDate, last.endDate)]
    /\ UNCHANGED <<m, quit, tasks, inbox, spinTicks, fetches, now, tz, ticks, files, ops, ghUser>>

InitDisplay ==
    /\ UIIdle
    /\ tz = 0 /\ now = StartClock(tz) /\ ticks = 0 /\ ghUser = "alice"
    /\ files = NoFiles /\ ops = 0
    /\ last \in {[op |-> "displayInput", startDate |-> a, endDate |-> b] :
                     a \in DisplayedDates, b \in DisplayedDates}

NextDisplay == Display

SpecDisplay == InitDisplay /\ [][NextDisplay]_vars

(***************************************************************************)
(* ui.Model and its Update.  A handler takes the model, the message and    *)
(* what the surroundings supply while it runs, and returns the new model   *)
(* and the command: "none", "quit", "load" (the batch of loadCommits),     *)
(* "blink", "tick", or "panic" (an index out of range).                    *)
(***************************************************************************)
screenDateRange == "DateRange"
screenDateSelect == "DateSelect"
screenRepoFilter == "RepoFilter"
screenRepoList == "RepoList"
screenSummary == "Summary"
screenExport == "Export"
screenStats == "Stats"
screenLoading == "Loading"

exportFormats == <<"text", "markdown", "json">>

\* NewModel; cfg.RepoFilter is the configured default filter pattern
NewModel(repoFilter, t, off) ==
    [commits |-> NoCommits, repoList |-> <<>>, filteredRepos |-> <<>>,
     cursor |-> 0, selected |-> [r \in Repos |-> FALSE],
     screen |-> screenDateRange,
     dateInput |-> TodayText(t, off), filterInput |-> repoFilter, filterActive |-> FALSE,
     dateRangeIdx |-> 0, startDate |-> TodayText(t, off), endDate |-> TodayText(t, off),
     exportFormat |-> 0, stats |-> NoStats,
     err |-> None, message |-> "", warning |-> "", loading |-> FALSE]

KeyMsg(k) == [type |-> "key", key |-> k]
TickMsg == [type |-> "tick"]
commitsLoadedMsg(commits, repoList, warning, err) ==
    [type |-> "commitsLoaded", commits |-> commits, repoList |-> repoList,
     warning |-> warning, err |-> err]

IsKey(msg, keys) == msg.type = "key" /\ msg.key \in keys

Stay(mm) == [model |-> mm, cmd |-> "none"]
Quit(mm) == [model |-> mm, cmd |-> "quit"]

\* getDisplayRepos
getDisplayRepos(mm) == IF mm.filterActive THEN mm.filteredRepos ELSE mm.repoList

\* a loadCommits whose command is the spinner's tick alone
loadCommitsSpinnerOnly(mm) ==
    [model |-> [mm EXCEPT !.loading = TRUE, !.screen = screenLoading, !.err = None],
     cmd |-> "tick"]

\* loadCommits: the part that runs on the event loop
loadCommits(mm) ==
    [model |-> [mm EXCEPT !.loading = TRUE, !.screen = screenLoading, !.err = None],
     cmd |-> "load"]

\* updateDateRange
updateDateRange(mm, msg, env) ==
    LET preset == DateRangePresets[mm.dateRangeIdx + 1]
        dr == GetDateRange(preset, env.now, env.tz)
    IN IF IsKey(msg, {"q", "esc"}) THEN Quit(mm)
       ELSE IF IsKey(msg, {"j", "down"})
       THEN Stay(IF mm.dateRangeIdx < Len(DateRangePresets) - 1
                 THEN [mm EXCEPT !.dateRangeIdx = @ + 1] ELSE mm)
       ELSE IF IsKey(msg, {"k", "up"})
       THEN Stay(IF mm.dateRangeIdx > 0 THEN [mm EXCEPT !.dateRangeIdx = @ - 1] ELSE mm)
       ELSE IF IsKey(msg, {"enter"})
       THEN IF preset = "custom"
            THEN [model |-> [mm EXCEPT !.err = None, !.screen = screenDateSelect], cmd |-> "blink"]
            ELSE loadCommits([mm EXCEPT !.startDate = dr.StartDate, !.endDate = dr.EndDate])
       ELSE Stay(mm)

\* updateDateSelect; env.typed is the text the input holds after an editing key
updateDateSelect(mm, msg, env) ==
    LET parsedDate == ParseDate(mm.dateInput)
    IN IF IsKey(msg, {"enter"})
       THEN IF ~parsedDate.ok
            THEN Stay([mm EXCEPT !.err = "invalid date format, please use YYYY-MM-DD"])
            ELSE IF After(parsedDate.at, EndOfToday(env.now, env.tz))
            THEN Stay([mm EXCEPT !.err = "date cannot be in the future"])
            ELSE loadCommits([mm EXCEPT !.startDate = mm.dateInput, !.endDate = mm.dateInput,
                                        !.err = None])
       ELSE IF IsKey(msg, {"esc"})
       THEN Stay([mm EXCEPT !.err = None, !.screen = screenDateRange])
       ELSE IF msg.type = "key" THEN Stay([mm EXCEPT !.dateInput = env.typed])
       ELSE Stay(mm)

\* an updateRepoFilter whose cancel leaves the filter applied
updateRepoFilterCancelKeepingFilter(mm, msg, env) ==
    IF IsKey(msg, {"enter"})
    THEN Stay([mm EXCEPT
             !.filterActive = (mm.filterInput # <<>>),
             !.filteredRepos = IF mm.filterInput = <<>> THEN mm.repoList
                               ELSE FilterReposByPattern(mm.repoList, mm.filterInput),
             !.cursor = 0,
             !.screen = screenRepoList])
    ELSE IF IsKey(msg, {"esc"})
    THEN Stay([mm EXCEPT !.filterInput = <<>>, !.screen = screenRepoList])
    ELSE IF msg.type = "key" THEN Stay([mm EXCEPT !.filterInput = env.typed])
    ELSE Stay(mm)

\* updateRepoFilter; env.typed is the text the input holds after an editing key
updateRepoFilter(mm, msg, env) ==
    IF IsKey(msg, {"enter"})
    THEN Stay([mm EXCEPT
             !.filterActive = (mm.filterInput # <<>>),
             !.filteredRepos = IF mm.filterInput = <<>> THEN mm.repoList
                               ELSE FilterReposByPattern(mm.repoList, mm.filterInput),
             !.cursor = 0,
             !.screen = screenRepoList])
    ELSE IF IsKey(msg, {"esc"})
    THEN Stay([mm EXCEPT !.filterActive = FALSE, !.filterInput = <<>>,
                         !.filteredRepos = mm.repoList, !.screen = screenRepoList])
    ELSE IF msg.type = "key" THEN Stay([mm EXCEPT !.filterInput = env.typed])
    ELSE Stay(mm)

\* a select-all that sets every repository of the selection, displayed or not
SetAllOfEveryRepo(selected, repos, value) == [r \in DOMAIN selected |-> value]

\* selected[repo] = value for every repo of the list
SetAll(selected, repos, value) ==
    [r \in DOMAIN selected |-> IF r \in Range(repos) THEN value ELSE selected[r]]

\* an updateRepoList whose cursor moves down without a look at the end of the list
updateRepoListUnclamped(mm, msg, env) ==
    LET repos == getDisplayRepos(mm)
        stats == CalculateStatistics(mm.commits, mm.selected, env.order)
    IN IF IsKey(msg, {"q"}) THEN Quit(mm)
       ELSE IF IsKey(msg, {"enter"})
       THEN Stay([mm EXCEPT !.screen = screenSummary, !.stats = stats])
       ELSE IF IsKey(msg, {" "})
       THEN IF Len(repos) = 0 THEN Stay(mm)
            ELSE IF mm.cursor >= Len(repos) THEN [model |-> mm, cmd |-> "panic"]
            ELSE Stay([mm EXCEPT !.selected[repos[mm.cursor + 1]] = ~@])
       ELSE IF IsKey(msg, {"j", "down"})
       THEN Stay([mm EXCEPT !.cursor = @ + 1])
       ELSE IF IsKey(msg, {"k", "up"})
       THEN Stay(IF mm.cursor > 0 THEN [mm EXCEPT !.cursor = @ - 1] ELSE mm)
       ELSE IF IsKey(msg, {"a"}) THEN Stay([mm EXCEPT !.selected = SetAll(@, repos, TRUE)])
       ELSE IF IsKey(msg, {"n"}) THEN Stay([mm EXCEPT !.selected = SetAll(@, repos, FALSE)])
       ELSE IF IsKey(msg, {"f", "/"})
       THEN [model |-> [mm EXCEPT !.screen = screenRepoFilter], cmd |-> "blink"]
       ELSE IF IsKey(msg, {"s"})
       THEN Stay([mm EXCEPT !.stats = stats, !.screen = screenStats])
       ELSE IF IsKey(msg, {"r"})
       THEN Stay([mm EXCEPT !.err = None, !.screen = screenDateRange, !.cursor = 0])
       ELSE Stay(mm)

\* an updateRepoList whose s opens the statistics as they were last computed
updateRepoListShowingHeldStats(mm, msg, env) ==
    LET repos == getDisplayRepos(mm)
        stats == CalculateStatistics(mm.commits, mm.selected, env.order)
    IN IF IsKey(msg, {"q"}) THEN Quit(mm)
       ELSE IF IsKey(msg, {"enter"})
       THEN Stay([mm EXCEPT !.screen = screenSummary, !.stats = stats])
       ELSE IF IsKey(msg, {" "})
       THEN IF Len(repos) = 0 THEN Stay(mm)
            ELSE IF mm.cursor >= Len(repos) THEN [model |-> mm, cmd |-> "panic"]
            ELSE Stay([mm EXCEPT !.selected[repos[mm.cursor + 1]] = ~@])
       ELSE IF IsKey(msg, {"j", "down"})
       THEN Stay(IF mm.cursor < Len(repos) - 1 THEN [mm EXCEPT !.cursor = @ + 1] ELSE mm)
       ELSE IF IsKey(msg, {"k", "up"})
       THEN Stay(IF mm.cursor > 0 THEN [mm EXCEPT !.cursor = @ - 1] ELSE mm)
       ELSE IF IsKey(msg, {"a"}) THEN Stay([mm EXCEPT !.selected = SetAll(@, repos, TRUE)])
       ELSE IF IsKey(msg, {"n"}) THEN Stay([mm EXCEPT !.selected = SetAll(@, repos, FALSE)])
       ELSE IF IsKey(msg, {"f", "/"})
       THEN [model |-> [mm EXCEPT !.screen = screenRepoFilter], cmd |-> "blink"]
       ELSE IF IsKey(msg, {"s"})
       THEN Stay([mm EXCEPT !.screen = screenStats])
       ELSE IF IsKey(msg, {"r"})
       THEN Stay([mm EXCEPT !.err = None, !.screen = screenDateRange, !.cursor = 0])
       ELSE Stay(mm)

\* updateRepoList; env.order is the order CalculateStatistics ranges over the map
updateRepoList(mm, msg, env) ==
    LET repos == getDisplayRepos(mm)
        stats == CalculateStatistics(mm.commits, mm.selected, env.order)
    IN IF IsKey(msg, {"q"}) THEN Quit(mm)
       ELSE IF IsKey(msg, {"enter"})
       THEN Stay([mm EXCEPT !.screen = screenSummary, !.stats = stats])
       ELSE IF IsKey(msg, {" "})
       THEN IF Len(repos) = 0 THEN Stay(mm)
            ELSE IF mm.cursor >= Len(repos) THEN [model |-> mm, cmd |-> "panic"]
            ELSE Stay([mm EXCEPT !.selected[repos[mm.cursor + 1]] = ~@])
       ELSE IF IsKey(msg, {"j", "down"})
       THEN Stay(IF mm.cursor < Len(repos) - 1 THEN [mm EXCEPT !.cursor = @ + 1] ELSE mm)
       ELSE IF IsKey(msg, {"k", "up"})
       THEN Stay(IF mm.cursor > 0 THEN [mm EXCEPT !.cursor = @ - 1] ELSE mm)
       ELSE IF IsKey(msg, {"a"}) THEN Stay([mm EXCEPT !.selected = SetAll(@, repos, TRUE)])
       ELSE IF IsKey(msg, {"n"}) THEN Stay([mm EXCEPT !.selected = SetAll(@, repos, FALSE)])
       ELSE IF IsKey(msg, {"f", "/"})
       THEN [model |-> [mm EXCEPT !.screen = screenRepoFilter], cmd |-> "blink"]
       ELSE IF IsKey(msg, {"s"})
       THEN Stay([mm EXCEPT !.stats = stats, !.screen = screenStats])
       ELSE IF IsKey(msg, {"r"})
       THEN Stay([mm EXCEPT !.err = None, !.screen = screenDateRange, !.cursor = 0])
       ELSE Stay(mm)

\* the message of a copy, cut to its fixed text: env.genOk is whether the content could be generated (only
\* the JSON export can fail), env.copyOk whether the clipboard took it
CopyMessage(format, env) ==
    IF format = "json" /\ ~env.genOk THEN "Failed to generate content"
    ELSE IF ~env.copyOk THEN "Failed to copy"
    ELSE "Copied to clipboard!"

\* updateSummary
updateSummary(mm, msg, env) ==
    IF IsKey(msg, {"q"}) THEN Quit(mm)
    ELSE IF IsKey(msg, {"esc", "b"}) THEN Stay([mm EXCEPT !.screen = screenRepoList])
    ELSE IF IsKey(msg, {"c"}) THEN Stay([mm EXCEPT !.message = CopyMessage("text", env)])
    ELSE IF IsKey(msg, {"e"}) THEN Stay([mm EXCEPT !.screen = screenExport, !.exportFormat = 0])
    ELSE IF IsKey(msg, {"s"})
    THEN Stay([mm EXCEPT !.stats = CalculateStatistics(mm.commits, mm.selected, env.order),
                         !.screen = screenStats])
    ELSE Stay(mm)

\* an updateExport that stays on the export screen without a word when the file
\* cannot be written
updateExportSilentOnWriteFailure(mm, msg, env) ==
    LET format == exportFormats[mm.exportFormat + 1]
    IN IF IsKey(msg, {"q"}) THEN Quit(mm)
       ELSE IF IsKey(msg, {"esc", "b"}) THEN Stay([mm EXCEPT !.screen = screenSummary])
       ELSE IF IsKey(msg, {"j", "down"})
       THEN Stay(IF mm.exportFormat < Len(exportFormats) - 1
                 THEN [mm EXCEPT !.exportFormat = @ + 1] ELSE mm)
       ELSE IF IsKey(msg, {"k", "up"})
       THEN Stay(IF mm.exportFormat > 0 THEN [mm EXCEPT !.exportFormat = @ - 1] ELSE mm)
       ELSE IF IsKey(msg, {"enter"})
       THEN IF format = "json" /\ ~env.genOk
            THEN Stay([mm EXCEPT !.message = "Failed to generate content",
                                 !.screen = screenSummary])
            ELSE IF ~env.saveOk THEN Stay(mm)
            ELSE Stay([mm EXCEPT !.message = "Saved to file", !.screen = screenSummary])
       ELSE IF IsKey(msg, {"c"}) THEN Stay([mm EXCEPT !.message = CopyMessage(format, env)])
       ELSE Stay(mm)

\* updateExport; env.saveOk is whether SaveToFile wrote the file; the messages are cut
\* to their fixed text
updateExport(mm, msg, env) ==
    LET format == exportFormats[mm.exportFormat + 1]
    IN IF IsKey(msg, {"q"}) THEN Quit(mm)
       ELSE IF IsKey(msg, {"esc", "b"}) THEN Stay([mm EXCEPT !.screen = screenSummary])
       ELSE IF IsKey(msg, {"j", "down"})
       THEN Stay(IF mm.exportFormat < Len(exportFormats) - 1
                 THEN [mm EXCEPT !.exportFormat = @ + 1] ELSE mm)
       ELSE IF IsKey(msg, {"k", "up"})
       THEN Stay(IF mm.exportFormat > 0 THEN [mm EXCEPT !.exportFormat = @ - 1] ELSE mm)
       ELSE IF IsKey(msg, {"enter"})
       THEN Stay([mm EXCEPT
                !.message = IF format = "json" /\ ~env.genOk THEN "Failed to generate content"
                            ELSE IF ~env.saveOk THEN "Failed to save"
                            ELSE "Saved to file",
                !.screen = screenSummary])
       ELSE IF IsKey(msg, {"c"}) THEN Stay([mm EXCEPT !.message = CopyMessage(format, env)])
       ELSE Stay(mm)

\* updateStats
updateStats(mm, msg, env) ==
    IF IsKey(msg, {"q"}) THEN Quit(mm)
    ELSE IF IsKey(msg, {"esc", "b"}) THEN Stay([mm EXCEPT !.screen = screenRepoList])
    ELSE Stay(mm)

\* an updateLoading that waits on when the fetch has failed
updateLoadingWaitingAfterFailure(mm, msg, env) ==
    IF msg.type = "commitsLoaded" /\ msg.err # None THEN Stay(mm)
    ELSE IF msg.type = "commitsLoaded"
    THEN Stay([mm EXCEPT
             !.loading = FALSE,
             !.commits = msg.commits,
             !.repoList = msg.repoList,
             !.warning = msg.warning,
             !.filterActive = (mm.filterInput # <<>>),
             !.filteredRepos = IF mm.filterInput # <<>>
                               THEN FilterReposByPattern(msg.repoList, mm.filterInput)
                               ELSE msg.repoList,
             !.err = msg.err,
             !.screen = screenRepoList,
             !.cursor = 0])
    ELSE IF msg.type = "tick" THEN [model |-> mm, cmd |-> "tick"]
    ELSE IF IsKey(msg, {"q", "ctrl+c"}) THEN Quit(mm)
    ELSE IF IsKey(msg, {"esc"})
    THEN Stay([mm EXCEPT !.loading = FALSE, !.err = None, !.screen = screenDateRange])
    ELSE Stay(mm)

\* an updateLoading that leaves the filtered list as the last confirm made it
updateLoadingKeepingFilteredRepos(mm, msg, env) ==
    IF msg.type = "commitsLoaded"
    THEN Stay([mm EXCEPT
             !.loading = FALSE,
             !.commits = msg.commits,
             !.repoList = msg.repoList,
             !.warning = msg.warning,
             !.filterActive = (mm.filterInput # <<>>),
             !.err = msg.err,
             !.screen = screenRepoList,
             !.cursor = 0])
    ELSE IF msg.type = "tick" THEN [model |-> mm, cmd |-> "tick"]
    ELSE IF IsKey(msg, {"q", "ctrl+c"}) THEN Quit(mm)
    ELSE IF IsKey(msg, {"esc"})
    THEN Stay([mm EXCEPT !.loading = FALSE, !.err = None, !.screen = screenDateRange])
    ELSE Stay(mm)

\* an updateLoading that keeps the commits and the repo list it has when the
\* completion carries an error
updateLoadingKeepingData(mm, msg, env) ==
    IF msg.type = "commitsLoaded"
    THEN Stay([mm EXCEPT
             !.loading = FALSE,
             !.commits = IF msg.err # None THEN mm.commits ELSE msg.commits,
             !.repoList = IF msg.err # None THEN mm.repoList ELSE msg.repoList,
             !.warning = msg.warning,
             !.filterActive = (mm.filterInput # <<>>),
             !.filteredRepos = IF mm.filterInput # <<>>
                               THEN FilterReposByPattern(msg.repoList, mm.filterInput)
                               ELSE msg.repoList,
             !.err = msg.err,
             !.screen = screenRepoList,
             !.cursor = 0])
    ELSE IF msg.type = "tick" THEN [model |-> mm, cmd |-> "tick"]
    ELSE IF IsKey(msg, {"q", "ctrl+c"}) THEN Quit(mm)
    ELSE IF IsKey(msg, {"esc"})
    THEN Stay([mm EXCEPT !.loading = FALSE, !.err = None, !.screen = screenDateRange])
    ELSE Stay(mm)

\* updateLoading
updateLoading(mm, msg, env) ==
    IF msg.type = "commitsLoaded"
    THEN Stay([mm EXCEPT
             !.loading = FALSE,
             !.commits = msg.commits,
             !.repoList = msg.repoList,
             !.warning = msg.warning,
             !.filterActive = (mm.filterInput # <<>>),
             !.filteredRepos = IF mm.filterInput # <<>>
                               THEN FilterReposByPattern(msg.repoList, mm.filterInput)
                               ELSE msg.repoList,
             !.err = msg.err,
             !.screen = screenRepoList,
             !.cursor = 0])
    ELSE IF msg.type = "tick" THEN [model |-> mm, cmd |-> "tick"]
    ELSE IF IsKey(msg, {"q", "ctrl+c"}) THEN Quit(mm)
    ELSE IF IsKey(msg, {"esc"})
    THEN Stay([mm EXCEPT !.loading = FALSE, !.err = None, !.screen = screenDateRange])
    ELSE Stay(mm)

\* an Update that leaves the message where it is
UpdateKeepingMessage(mm, msg, env) ==
    IF IsKey(msg, {"ctrl+c"}) THEN Quit(mm)
    ELSE CASE mm.screen = screenDateRange  -> updateDateRange(mm, msg, env)
           [] mm.screen = screenDateSelect -> updateDateSelect(mm, msg, env)
           [] mm.screen = screenRepoFilter -> updateRepoFilter(mm, msg, env)
           [] mm.screen = screenRepoList   -> updateRepoList(mm, msg, env)
           [] mm.screen = screenSummary    -> updateSummary(mm, msg, env)
           [] mm.screen = screenExport     -> updateExport(mm, msg, env)
           [] mm.screen = screenStats      -> updateStats(mm, msg, env)
           [] mm.screen = screenLoading    -> updateLoading(mm, msg, env)
           [] OTHER                        -> Stay(mm)

\* an Update without the global quit: ctrl+c goes to the screen's handler
UpdateWithoutGlobalQuit(mm, msg, env) ==
    LET m1 == IF msg.type = "key" THEN [mm EXCEPT !.message = ""] ELSE mm
    IN CASE m1.screen = screenDateRange  -> updateDateRange(m1, msg, env)
         [] m1.screen = screenDateSelect -> updateDateSelect(m1, msg, env)
         [] m1.screen = screenRepoFilter -> updateRepoFilter(m1, msg, env)
         [] m1.screen = screenRepoList   -> updateRepoList(m1, msg, env)
         [] m1.screen = screenSummary    -> updateSummary(m1, msg, env)
         [] m1.screen = screenExport     -> updateExport(m1, msg, env)
         [] m1.screen = screenStats      -> updateStats(m1, msg, env)
         [] m1.screen = screenLoading    -> updateLoading(m1, msg, env)
         [] OTHER                        -> Stay(m1)

\* Model.Update
Update(mm, msg, env) ==
    IF IsKey(msg, {"ctrl+c"}) THEN Quit(mm)
    ELSE LET m1 == IF msg.type = "key" THEN [mm EXCEPT !.message = ""] ELSE mm
         IN CASE m1.screen = screenDateRange  -> updateDateRange(m1, msg, env)
              [] m1.screen = screenDateSelect -> updateDateSelect(m1, msg, env)
              [] m1.screen = screenRepoFilter -> updateRepoFilter(m1, msg, env)
              [] m1.screen = screenRepoList   -> updateRepoList(m1, msg, env)
              [] m1.screen = screenSummary    -> updateSummary(m1, msg, env)
              [] m1.screen = screenExport     -> updateExport(m1, msg, env)
              [] m1.screen = screenStats      -> updateStats(m1, msg, env)
              [] m1.screen = screenLoading    -> updateLoading(m1, msg, env)
              [] OTHER                        -> Stay(m1)

(***************************************************************************)
(* Spec: one session of the program.  Keys arrive on the event loop, which *)
(* runs Update on one message at a time; the command of loadCommits runs   *)
(* as a task beside it and posts its commitsLoadedMsg to the inbox.        *)
(***************************************************************************)
\* the texts the date input is edited to: today, tomorrow, a day that does not exist
\* (days of the clock's start)
DateTexts == {CivilFromDays(StartDay), CivilFromDays(StartDay + 1), <<2026, 2, 30>>}

\* the texts the filter input is edited to
Patterns == {<<>>, <<"*", "x">>}

\* the keys of a screen that shows a list, and of a screen that takes text
ListKeys == {"ctrl+c", "q", "esc", "enter", "j", "down", "k", "up", " ", "a", "n",
             "f", "/", "s", "r", "b", "c", "e", "x"}
TextKeys == {"ctrl+c", "esc", "enter", "x"}

\* the zones a session runs in
SessionZones == {-8, 0}

\* what the surroundings supply to a handler that asks for nothing
BaseEnv ==
    [now |-> now, tz |-> tz, typed |-> <<>>, order |-> <<>>,
     genOk |-> TRUE, copyOk |-> TRUE, saveOk |-> TRUE]

\* the closure of loadCommits before it has read anything
NewTask == [pc |-> "readStart", startDate |-> <<>>, endDate |-> <<>>]

RemoveAt(seq, i) == SubSeq(seq, 1, i - 1) \o SubSeq(seq, i + 1, Len(seq))

\* the event loop runs Update on msg and starts its command
Handle(msg, env, inboxAfter) ==
    /\ msg.type = "key" => ops < MaxKeys
    /\ \E r \in {Update(m, msg, env)} :
        /\ r.cmd = "load" => fetches < MaxFetches
        /\ ops' = IF msg.type = "key" THEN ops + 1 ELSE ops
        /\ m' = r.model
        /\ quit' = (r.cmd \in {"quit", "panic"})
        /\ tasks' = IF r.cmd = "load" THEN Append(tasks, NewTask) ELSE tasks
        /\ fetches' = IF r.cmd = "load" THEN fetches + 1 ELSE fetches
        /\ spinTicks' = IF r.cmd \in {"load", "tick"} THEN spinTicks + 1 ELSE spinTicks
        /\ inbox' = inboxAfter
        /\ UNCHANGED <<now, tz, ticks, files, last, ghUser>>

KeyDateRange ==
    /\ ~quit /\ m.screen = screenDateRange
    /\ \E k \in ListKeys : Handle(KeyMsg(k), BaseEnv, inbox)

\* an editing key leaves any of the texts in the input
KeyDateSelect ==
    /\ ~quit /\ m.screen = screenDateSelect
    /\ \E k \in TextKeys :
       \E typed \in IF k = "x" THEN DateTexts ELSE {<<>>} :
          Handle(KeyMsg(k), [BaseEnv EXCEPT !.typed = typed], inbox)

KeyRepoFilter ==
    /\ ~quit /\ m.screen = screenRepoFilter
    /\ \E k \in TextKeys :
       \E typed \in IF k = "x" THEN Patterns ELSE {<<>>} :
          Handle(KeyMsg(k), [BaseEnv EXCEPT !.typed = typed], inbox)

KeyRepoList ==
    /\ ~quit /\ m.screen = screenRepoList
    /\ \E k \in ListKeys :
       \E order \in IF k \in {"enter", "s"} THEN Orders(DOMAIN m.commits) ELSE {<<>>} :
          Handle(KeyMsg(k), [BaseEnv EXCEPT !.order = order], inbox)

KeySummary ==
    /\ ~quit /\ m.screen = screenSummary
    /\ \E k \in ListKeys :
       \E order \in IF k = "s" THEN Orders(DOMAIN m.commits) ELSE {<<>>},
          copyOk \in IF k = "c" THEN BOOLEAN ELSE {TRUE} :
          Handle(KeyMsg(k), [BaseEnv EXCEPT !.order = order, !.copyOk = copyOk], inbox)

KeyExport ==
    /\ ~quit /\ m.screen = screenExport
    /\ \E k \in ListKeys :
       \E genOk \in IF k \in {"enter", "c"} THEN BOOLEAN ELSE {TRUE},
          copyOk \in IF k = "c" THEN BOOLEAN ELSE {TRUE},
          saveOk \in IF k = "enter" THEN BOOLEAN ELSE {TRUE} :
          Handle(KeyMsg(k), [BaseEnv EXCEPT !.genOk = genOk, !.copyOk = copyOk,
                                            !.saveOk = saveOk], inbox)

KeyStats ==
    /\ ~quit /\ m.screen = screenStats
    /\ \E k \in ListKeys : Handle(KeyMsg(k), BaseEnv, inbox)

KeyLoading ==
    /\ ~quit /\ m.screen = screenLoading
    /\ \E k \in ListKeys : Handle(KeyMsg(k), BaseEnv, inbox)

\* a tick of the spinner arrives; only updateLoading answers it with the next tick
SpinnerTick ==
    /\ ~quit /\ spinTicks > 0
    /\ \E r \in {Update(m, TickMsg, BaseEnv)} :
          /\ m' = r.model
          /\ spinTicks' = IF r.cmd = "tick" THEN spinTicks ELSE spinTicks - 1
    /\ UNCHANGED <<quit, tasks, inbox, fetches, now, tz, ticks, files, ops, last, ghUser>>

\* the closure reads m.startDate, then m.endDate, while the event loop goes on
TaskRead ==
    /\ ~quit
    /\ \E i \in DOMAIN tasks :
          \/ /\ tasks[i].pc = "readStart"
             /\ tasks' = [tasks EXCEPT ![i].startDate = m.startDate, ![i].pc = "readEnd"]
          \/ /\ tasks[i].pc = "readEnd"
             /\ tasks' = [tasks EXCEPT ![i].endDate = m.endDate, ![i].pc = "call"]
    /\ UNCHANGED <<m, quit, inbox, spinTicks, fetches, now, tz, ticks, files, ops, last, ghUser>>

\* the surroundings of a fetch of the session: the login is known or not, the search
\* succeeds or fails for want of a login, the cache directory can be read but not
\* written
SessionEnvs ==
    {e \in FetchEnvs(ghUser) :
        /\ e.readOk /\ e.write = "fail"
        /\ e.output \in {"", NotLoggedIn}}

\* the closure calls GetCommitsForRange and posts the result
TaskReturn ==
    /\ ~quit
    /\ \E i \in DOMAIN tasks, env \in SessionEnvs :
          /\ tasks[i].pc = "call"
          /\ \E r \in {GetCommitsForRange(files, tasks[i].startDate, tasks[i].endDate,
                                          now, tz, env)} :
                /\ files' = r.files
                /\ inbox' = Append(inbox,
                                IF r.ok
                                THEN commitsLoadedMsg(r.data.Commits, r.data.RepoList,
                                                      r.data.Warning, None)
                                ELSE commitsLoadedMsg(NoCommits, <<>>, "", r.err))
          /\ tasks' = RemoveAt(tasks, i)
    /\ UNCHANGED <<m, quit, spinTicks, fetches, now, tz, ticks, ops, last, ghUser>>

\* the event loop takes the next commitsLoadedMsg
Deliver ==
    /\ ~quit /\ inbox # <<>>
    /\ Handle(Head(inbox), BaseEnv, Tail(inbox))

Init ==
    /\ EnvInit
    /\ tz \in SessionZones
    /\ ghUser = "alice"
    /\ m \in {NewModel(repoFilter, now, tz) : repoFilter \in Patterns}
    /\ quit = FALSE
    /\ tasks = <<>>
    /\ inbox = <<>>
    /\ spinTicks = 0
    /\ fetches = 0

Next ==
    \/ KeyDateRange \/ KeyDateSelect \/ KeyRepoFilter \/ KeyRepoList
    \/ KeySummary \/ KeyExport \/ KeyStats \/ KeyLoading
    \/ SpinnerTick \/ TaskRead \/ TaskReturn \/ Deliver

Spec == Init /\ [][Next]_vars

\* the session when the runtime schedules it: the closure of a tea.Cmd runs in a
\* goroutine of its own until it returns, the search it calls returning, and the
\* event loop takes every message posted to it; the user need not press anything.
\* The session runs in UTC.
InitLive == Init /\ tz = 0

SpecLive ==
    /\ InitLive /\ [][Next]_vars
    /\ WF_vars(TaskRead) /\ WF_vars(TaskReturn) /\ WF_vars(Deliver)

(***************************************************************************)
(* Claims about the session.  A claim about what a handler does is stated  *)
(* on every reachable state the handler can be run in.                     *)
(***************************************************************************)
DataScreens == {screenRepoList, screenSummary, screenStats}

\* what the source answers for the date range the session holds
ResultFor(mm) == BuildCommitData(SearchItems(DateRangeQuery(mm.startDate, mm.endDate)))

\* the model after the event loop has handled msg
After_(msg) == Update(m, msg, BaseEnv).model

\* the next message of the inbox is a completion the Loading screen is about to take
CompletionDue == ~quit /\ m.screen = screenLoading /\ inbox # <<>>

\* C1: whenever RepoList, Summary or Statistics show data, the data is the result of
\* the fetch for the date range the session holds; a fetch abandoned by a cancel
\* never puts its result into the session.
C1_DataIsForCurrentRange ==
    (~quit /\ m.screen \in DataScreens /\ m.err = None) =>
        /\ m.commits = ResultFor(m).Commits
        /\ m.repoList = ResultFor(m).RepoList
        /\ m.warning = ResultFor(m).Warning

\* C2: a successful completion taken in Loading leads to RepoList with no repository
\* selected, the cursor at 0 and the displayed list computed from the new repo list
\* and the filter pattern.
C2_SuccessClearsSelection ==
    (CompletionDue /\ Head(inbox).err = None) =>
        LET done == After_(Head(inbox))
        IN /\ done.screen = screenRepoList
           /\ \A r \in Repos : ~done.selected[r]
           /\ done.cursor = 0
           /\ getDisplayRepos(done) =
                 IF m.filterInput = <<>> THEN Head(inbox).repoList
                 ELSE FilterReposByPattern(Head(inbox).repoList, m.filterInput)

\* C3: a failed completion taken in Loading leads to RepoList with commits, repo list
\* and displayed list empty and the error attached; from RepoList with an error the
\* retry key leads to DateRange with the error cleared.
C3_FailureShowsNoData ==
    /\ (CompletionDue /\ Head(inbox).err # None) =>
          LET done == After_(Head(inbox))
          IN /\ done.screen = screenRepoList
             /\ done.commits = NoCommits
             /\ done.repoList = <<>>
             /\ getDisplayRepos(done) = <<>>
             /\ done.err = Head(inbox).err
    /\ (~quit /\ m.screen = screenRepoList /\ m.err # None) =>
          /\ After_(KeyMsg("r")).screen = screenDateRange
          /\ After_(KeyMsg("r")).err = None

\* a failed completion has been taken after an earlier fetch had brought repositories,
\* one of which the user had selected
C3_Witness ==
    /\ m.screen = screenRepoList /\ m.err # None
    /\ m.commits = NoCommits /\ m.repoList = <<>>
    /\ \E r \in Repos : m.selected[r]

\* C4: the back key in Statistics returns to the screen Statistics was opened from,
\* RepoList or Summary.
C4_BackReturnsToInvoker ==
    [][(~quit /\ m.screen \in {screenRepoList, screenSummary} /\ m'.screen = screenStats) =>
          /\ (After_(KeyMsg("b")).screen)' = m.screen
          /\ (After_(KeyMsg("esc")).screen)' = m.screen]_vars

\* the text is a date after the local calendar day of the clock
IsFutureDate(text, t, off) ==
    IsDateText(text) /\ DaysFromCivil(text[1], text[2], text[3]) > LocalDay(t, off)

\* C5: in DateSelect, confirming a text that is no date or a date after today's
\* calendar date stays on DateSelect with an error, starts no fetch and leaves the
\* date range as it was; confirming a date that is not in the future sets start and
\* end to it and moves to Loading.
C5_ConfirmValidatesDate ==
    (~quit /\ m.screen = screenDateSelect) =>
        LET r == Update(m, KeyMsg("enter"), BaseEnv)
        IN IF ~IsDateText(m.dateInput) \/ IsFutureDate(m.dateInput, now, tz)
           THEN /\ r.model.screen = screenDateSelect
                /\ r.model.err # None
                /\ r.cmd # "load"
                /\ r.model.startDate = m.startDate
                /\ r.model.endDate = m.endDate
           ELSE /\ r.model.startDate = m.dateInput
                /\ r.model.endDate = m.dateInput
                /\ r.model.screen = screenLoading
                /\ r.cmd = "load"

(***************************************************************************)
(* Claims about the retrieval pipeline and the cache.                      *)
(***************************************************************************)
\* the query a cache key was made for
QueryOf(key) == key[3]

\* true of a file that is a readable entry not past its expiry at instant t
Unexpired(file, t) ==
    file.kind = "entry" /\ SecondsBetween(t, file.timestamp) <= file.ttl

\* C6, as claimed: a fetch that finds an unexpired entry under its key, and can read
\* it, returns the cached data and starts no external tool process, neither the
\* commit search nor the identity lookup.
C6_CacheHitStartsNoProcess ==
    (last.op = "fetch" /\ Unexpired(last.before, last.at) /\ last.readErr = None)
        => (last.ok /\ last.data = last.before.data /\ last.calls = <<>>)

\* C7: whenever the cache read or the cache write of a fetch returned an error, the
\* fetch started the commit search and returned what the search gave: its data when
\* it succeeded, its error when it failed.
C7_CacheFailureNeverBlocks ==
    (last.op = "fetch" /\ (last.readErr # None \/ last.writeErr # None))
        => /\ last.calls = <<"user", "search">>
           /\ last.ok => last.data = BuildCommitData(SearchItems(QueryOf(last.key)))
           /\ ~last.ok => last.err = FetchErrorText(last.output)

\* C7 witness: a fetch succeeded although both the cache read and the cache write
\* returned errors.
C7_Witness ==
    last.op = "fetch" /\ last.readErr # None /\ last.writeErr # None /\ last.ok

\* C8, as claimed: a get that reads a file it cannot deserialize (the envelope or
\* the payload) returns no error, reports a miss and leaves no file under the key.
C8_CorruptEntryIsDeletedMiss ==
    (last.op = "get" /\ last.readOk /\ last.before.kind \in {"garbage", "badPayload"})
        => (last.err = None /\ ~last.found /\ last.key \notin DOMAIN files)

\* C9: a get reports found only for an entry whose age at the get is at most its
\* ttl (and returns that entry's data); a get that reads an entry older than its
\* ttl reports a miss without error and leaves no file under the key.
C9_NeverReturnedPastExpiry ==
    /\ (last.op = "get" /\ last.found)
           => (Unexpired(last.before, last.at) /\ last.data = last.before.data)
    /\ (last.op = "get" /\ last.readOk /\ last.before.kind = "entry"
          /\ SecondsBetween(last.at, last.before.timestamp) > last.before.ttl)
           => (~last.found /\ last.err = None /\ last.key \notin DOMAIN files)

\* C9 witness: a get read an entry one second past its ttl, missed and removed it.
C9_Witness ==
    /\ last.op = "get" /\ last.readOk /\ last.before.kind = "entry"
    /\ SecondsBetween(last.at, last.before.timestamp) = last.before.ttl + 1
    /\ ~last.found /\ last.key \notin DOMAIN files

\* C10: a fetch that got its data from the commit search and whose cache write
\* succeeded left an entry under its key holding that data, stamped with the time of
\* the write, whose ttl is 5 minutes if the query is the single date that is today
\* at the write and 1 hour for every other query.
C10_TtlByToday ==
    (last.op = "fetch" /\ last.ok /\ last.calls = <<"user", "search">> /\ last.writeErr = None)
        => /\ last.key \in DOMAIN files
           /\ files[last.key].data = last.data
           /\ files[last.key].timestamp = last.at
           /\ files[last.key].ttl =
                 IF QueryOf(last.key) = CivilFromDays(LocalDay(last.at, tz))
                 THEN TTLToday ELSE TTLOlder

\* C10 witness: the cache holds an entry written for today's single date with the
\* 5 minute ttl and, written at the same time, one for a span ending today with the
\* 1 hour ttl.
C10_Witness ==
    \E k1 \in DOMAIN files, k2 \in DOMAIN files :
        /\ Len(QueryOf(k1)) = 3 /\ files[k1].ttl = TTLToday
        /\ Len(QueryOf(k2)) = 7 /\ files[k2].ttl = TTLOlder
        /\ SubSeq(QueryOf(k2), 5, 7) = QueryOf(k1)
        /\ files[k1].timestamp = files[k2].timestamp

(***************************************************************************)
(* Claims about the answer of the commit search.                           *)
(***************************************************************************)
\* C11: the commit data built from the tool's answer carries a warning if and only
\* if the answer holds at least as many items as the cap (1000), counted before the
\* items without a repository or a message are dropped.
C11_WarningIffCapReached ==
    last.op = "search" =>
        /\ (last.warning # "") <=> (last.count >= DefaultLimit)
        /\ last.warning \in {"", CappedWarning}

\* C11 witness: an answer of exactly 1000 items, a third of them without a repository,
\* gave fewer than 1000 commits and the warning.
C11_Witness ==
    /\ last.op = "search" /\ last.count = DefaultLimit
    /\ last.kept < DefaultLimit /\ last.kept > 0
    /\ last.warning = CappedWarning

(***************************************************************************)
(* Claims about the statistics.                                            *)
(***************************************************************************)
\* the sum of the values of a function into the naturals
RECURSIVE SumOf(_)
SumOf(f) ==
    IF DOMAIN f = {} THEN 0
    ELSE LET x == CHOOSE y \in DOMAIN f : TRUE
         IN f[x] + SumOf([y \in DOMAIN f \ {x} |-> f[y]])

\* the selected repositories of the map, in ascending order
SelectedPresent(commits, selected) == SortStrings({r \in DOMAIN commits : selected[r]})

\* the largest number of commits a selected repository of the map has
LargestCount(commits, selected) ==
    IF \A r \in DOMAIN commits : ~selected[r] THEN 0
    ELSE CHOOSE n \in 0..MaxPerRepo :
            /\ \E r \in DOMAIN commits : selected[r] /\ Len(commits[r]) = n
            /\ \A r \in DOMAIN commits : selected[r] => Len(commits[r]) <= n

\* C12, as claimed: the statistics are a function of the commit map and the selection
\* alone (every order of iteration gives the statistics computed), and among the
\* selected repositories with the most commits the most active one is the first in
\* ascending order.
C12_StatisticsDeterministic ==
    last.op = "stats" =>
        /\ \A o \in Orders(DOMAIN last.commits) :
              CalculateStatistics(last.commits, last.selected, o) = last.stats
        /\ LET sorted == SelectedPresent(last.commits, last.selected)
               top == {i \in DOMAIN sorted :
                          Len(last.commits[sorted[i]]) = LargestCount(last.commits, last.selected)}
           IN top # {} =>
                 last.stats.MostActiveRepo = sorted[CHOOSE i \in top : \A j \in top : i <= j]

\* C13: the total of commits is the sum of the counts per repository, the total of
\* repositories is the number of counts, the maximum is the largest count (0, with no
\* most active repository, when nothing of the map is selected); a map of 3 and 2
\* commits, both selected, gives 5, 2, the repository of 3, and 3.
C13_TotalsMatchCounts ==
    last.op = "stats" =>
        LET st == last.stats
        IN /\ st.TotalCommits = SumOf(st.CommitsPerRepo)
           /\ st.TotalRepositories = Cardinality(DOMAIN st.CommitsPerRepo)
           /\ st.MaxCommits = LargestCount(last.commits, last.selected)
           /\ \A r \in DOMAIN st.CommitsPerRepo : st.CommitsPerRepo[r] <= st.MaxCommits
           /\ (st.MaxCommits > 0) =>
                 /\ st.MostActiveRepo \in DOMAIN st.CommitsPerRepo
                 /\ st.CommitsPerRepo[st.MostActiveRepo] = st.MaxCommits
           /\ (\A r \in DOMAIN last.commits : ~last.selected[r]) =>
                 /\ st.MaxCommits = 0 /\ st.MostActiveRepo = <<>>
                 /\ st.TotalCommits = 0 /\ st.TotalRepositories = 0
           /\ (/\ DOMAIN last.commits = {RepoAX, RepoBX}
               /\ Len(last.commits[RepoAX]) = 3 /\ Len(last.commits[RepoBX]) = 2
               /\ last.selected[RepoAX] /\ last.selected[RepoBX]) =>
                 /\ st.TotalCommits = 5 /\ st.TotalRepositories = 2
                 /\ st.MostActiveRepo = RepoAX /\ st.MaxCommits = 3

\* C13 witness: the statistics of the map of 3 and 2 commits, both selected, computed
\* in the order that meets the smaller repository first.
C13_Witness ==
    /\ last.op = "stats"
    /\ DOMAIN last.commits = {RepoAX, RepoBX}
    /\ Len(last.commits[RepoAX]) = 3 /\ Len(last.commits[RepoBX]) = 2
    /\ last.selected[RepoAX] /\ last.selected[RepoBX]
    /\ last.order = <<RepoBX, RepoAX>>
    /\ last.stats.TotalCommits = 5

\* the repositories of a listing, and the number of commit messages it shows
ListedRepos(listing) == {listing[i].repo : i \in DOMAIN listing}
ListedCommits(listing) == SumSeq([i \in DOMAIN listing |-> Len(listing[i].messages)])

\* the number of commits of the selected repositories of the map
SelectedCommits(commits, selected) ==
    CountCommits([r \in {x \in DOMAIN commits : selected[x]} |-> commits[r]])

\* C14: the statistics, the Summary listing and every export hold exactly the
\* repositories that are selected and in the commit map, with exactly their commits;
\* a selected repository that the map does not hold adds no repository and no commit.
C14_OnlySelectedAndPresent ==
    last.op = "stats" =>
        LET both == {r \in DOMAIN last.commits : last.selected[r]}
            total == SelectedCommits(last.commits, last.selected)
        IN /\ DOMAIN last.stats.CommitsPerRepo = both
           /\ last.stats.TotalCommits = total
           /\ last.stats.TotalRepositories = Cardinality(both)
           /\ last.stats.MostActiveRepo \in both \cup {<<>>}
           /\ ListedRepos(last.listing.repos) = both
           /\ Len(last.listing.repos) = Cardinality(both)
           /\ last.listing.totalCommits = total
           /\ ListedCommits(last.listing.repos) = total
           /\ \A i \in DOMAIN last.exports :
                 /\ ListedRepos(last.exports[i].commits) = both
                 /\ Len(last.exports[i].commits) = Cardinality(both)
                 /\ ListedCommits(last.exports[i].commits) = total
                 /\ last.exports[i].total_repos = Cardinality(both)
                 /\ last.exports[i].total_commits = total

\* C14 witness: a call in which one selected repository is in the map and another
\* selected repository is not.
C14_Witness ==
    /\ last.op = "stats"
    /\ \E r \in Repos : last.selected[r] /\ r \in DOMAIN last.commits
    /\ \E r \in Repos : last.selected[r] /\ r \notin DOMAIN last.commits

(***************************************************************************)
(* Claims about the errors of a retrieval.                                 *)
(***************************************************************************)
\* C15, as claimed: the error of a fetch whose commit search ran and failed is the
\* message for what the tool printed: the authentication, the rate limit or the
\* network message when the output matches those patterns, a generic message when it
\* matches none.
C15_FailureIsClassified ==
    (last.op = "fetch" /\ ~last.ok /\ last.calls = <<"user", "search">>) =>
        last.err = GetUserFriendlyMessage(WrapError(SearchCommand, last.output, ExitStatus))

(***************************************************************************)
(* Claims about the fetch task and the event loop.                         *)
(***************************************************************************)
\* the key events the loop may handle next, whatever text an editing key leaves
NextKeyEvents ==
    {[msg |-> KeyMsg(k), env |-> [BaseEnv EXCEPT !.typed = typed]] :
        k \in ListKeys \cup TextKeys, typed \in DateTexts \cup {<<>>}}

\* the fields of the session a task has still to read
PendingReads(task) ==
    CASE task.pc = "readStart" -> {"startDate", "endDate"}
      [] task.pc = "readEnd"   -> {"endDate"}
      [] OTHER                 -> {}

\* C16, as claimed: the fetch task reads no field of the session that an event handled
\* meanwhile can modify: while a task has still to read startDate or endDate, no key
\* event the loop may handle next changes that field.
C16_TaskReadsNothingTheLoopWrites ==
    ~quit =>
        \A i \in DOMAIN tasks : \A f \in PendingReads(tasks[i]) : \A ev \in NextKeyEvents :
            Update(m, ev.msg, ev.env).model[f] = m[f]

\* a step that enters the Loading screen
EntersLoading == m.screen # screenLoading /\ m'.screen = screenLoading

\* a step in which a fetch ends
FetchEnds == Len(tasks') < Len(tasks)

\* the loop handles a key
KeyStep ==
    \/ KeyDateRange \/ KeyDateSelect \/ KeyRepoFilter \/ KeyRepoList
    \/ KeySummary \/ KeyExport \/ KeyStats \/ KeyLoading

TextScreens == {screenDateSelect, screenRepoFilter}

\* C18: on every screen, whatever the session holds, ctrl+c makes the session exit,
\* and so does q on the screens that take no text; and a session that has not exited
\* always has a key it can handle next.
C18_QuitFromEveryScreen ==
    ~quit =>
        /\ \A typed \in DateTexts \cup Patterns :
              Update(m, KeyMsg("ctrl+c"), [BaseEnv EXCEPT !.typed = typed]).cmd = "quit"
        /\ m.screen \notin TextScreens => Update(m, KeyMsg("q"), BaseEnv).cmd = "quit"
        /\ ops < MaxKeys => ENABLED KeyStep

\* a session on a text screen opened from the list of a loaded range
C18_Witness == ~quit /\ m.screen = screenRepoFilter /\ m.repoList # <<>>

\* the outcomes of what a key of the summary or the export asks of the surroundings
Outcomes ==
    {[BaseEnv EXCEPT !.genOk = g, !.copyOk = c, !.saveOk = v] :
        g \in BOOLEAN, c \in BOOLEAN, v \in BOOLEAN}

\* the keys that set a message on the screen of mm: copy on the summary, save and
\* copy on the export
SetsMessage(mm, k) ==
    \/ mm.screen = screenSummary /\ k = "c"
    \/ mm.screen = screenExport /\ k \in {"enter", "c"}

\* a message on display is gone after any of the keys that does not set one
MessageClearedBy(keys) ==
    (~quit /\ m.message # "") =>
        \A k \in keys : \A env \in Outcomes :
            ~SetsMessage(m, k) => Update(m, KeyMsg(k), env).model.message = ""

\* the screen a key leads to is the same with and without a message on display, and
\* the same whatever message the key sets
MessageNeverMovesScreen ==
    (~quit /\ m.screen \in {screenSummary, screenExport}) =>
        \A k \in ListKeys : \A env \in Outcomes :
            /\ Update(m, KeyMsg(k), env).model.screen
                  = Update([m EXCEPT !.message = ""], KeyMsg(k), BaseEnv).model.screen
            /\ Update(m, KeyMsg(k), env).model.message
                  # Update(m, KeyMsg(k), BaseEnv).model.message =>
                  SetsMessage(m, k)

C20_AnyKeyClearsError ==
    (~quit /\ m.err # None) =>
        \A k \in (ListKeys \cup TextKeys) \ {"ctrl+c", "q", "enter"} :
        \A typed \in DateTexts :
            Update(m, KeyMsg(k), [BaseEnv EXCEPT !.typed = typed]).model.err = None

(***************************************************************************)
(* Claims about the repo list and its filter.                              *)
(***************************************************************************)
\* the model after a key of the repo list that is to change the selection alone (and
\* the message every key clears)
OnlySelectionChanged(r) ==
    /\ r.cmd = "none"
    /\ r.model = [m EXCEPT !.selected = r.model.selected, !.message = ""]

\* C21: on RepoList, select-all and select-none set the selection of exactly the
\* displayed repositories and leave that of every other repository; toggle flips the
\* repository under the cursor alone (nothing on an empty list); none of the three
\* changes anything but the selection.
C21_SelectionKeysTouchDisplayedOnly ==
    (~quit /\ m.screen = screenRepoList) =>
        LET shown == IF m.filterActive THEN m.filteredRepos ELSE m.repoList
            all == Update(m, KeyMsg("a"), BaseEnv)
            none == Update(m, KeyMsg("n"), BaseEnv)
            toggle == Update(m, KeyMsg(" "), BaseEnv)
        IN /\ OnlySelectionChanged(all)
           /\ OnlySelectionChanged(none)
           /\ OnlySelectionChanged(toggle)
           /\ \A r \in Repos :
                 /\ all.model.selected[r] = (IF r \in Range(shown) THEN TRUE ELSE m.selected[r])
                 /\ none.model.selected[r] = (IF r \in Range(shown) THEN FALSE ELSE m.selected[r])
                 /\ toggle.model.selected[r] =
                       (IF shown # <<>> /\ r = shown[m.cursor + 1]
                        THEN ~m.selected[r] ELSE m.selected[r])

\* select-none on a filtered list whose repositories are selected, while a repository
\* the filter hides is selected as well: it clears the former and leaves the latter
C21_Witness ==
    /\ ~quit /\ m.screen = screenRepoList /\ m.filterActive /\ m.filteredRepos # <<>>
    /\ \A r \in Range(m.repoList) : m.selected[r]
    /\ LET none == Update(m, KeyMsg("n"), BaseEnv).model
       IN /\ \A r \in Range(m.filteredRepos) : ~none.selected[r]
          /\ \E r \in Range(m.repoList) \ Range(m.filteredRepos) : none.selected[r]

\* C22: on RepoFilter, confirm and cancel both end on RepoList with the commits and
\* the selection as they were; confirm of an empty pattern and cancel leave no filter
\* and the full repo list on display (cancel empties the pattern too), confirm of a
\* pattern leaves the repositories of the list the pattern matches on display.
C22_FilterConfirmAndCancel ==
    (~quit /\ m.screen = screenRepoFilter) =>
        LET confirm == Update(m, KeyMsg("enter"), BaseEnv).model
            cancel == Update(m, KeyMsg("esc"), BaseEnv).model
        IN /\ confirm.screen = screenRepoList /\ cancel.screen = screenRepoList
           /\ confirm.commits = m.commits /\ confirm.selected = m.selected
           /\ cancel.commits = m.commits /\ cancel.selected = m.selected
           /\ confirm.repoList = m.repoList /\ cancel.repoList = m.repoList
           /\ confirm.filterInput = m.filterInput
           /\ IF m.filterInput = <<>>
              THEN ~confirm.filterActive /\ getDisplayRepos(confirm) = m.repoList
              ELSE /\ confirm.filterActive
                   /\ getDisplayRepos(confirm) = FilterReposByPattern(m.repoList, m.filterInput)
           /\ ~cancel.filterActive /\ cancel.filterInput = <<>>
           /\ getDisplayRepos(cancel) = m.repoList

\* the filter screen opened over a filtered list, with a pattern in the input that
\* hides a repository of the list
C22_Witness ==
    /\ ~quit /\ m.screen = screenRepoFilter /\ m.filterActive /\ m.filterInput # <<>>
    /\ FilterReposByPattern(m.repoList, m.filterInput) # m.repoList
    /\ m.filteredRepos # m.repoList

(***************************************************************************)
(* Claims about the export screen.                                         *)
(***************************************************************************)
\* the model after a key of the export screen that is to change nothing but the
\* message and the screen
OnlyMessageAndScreenChanged(r) ==
    /\ r.cmd = "none"
    /\ r.model = [m EXCEPT !.message = r.model.message, !.screen = r.model.screen]

\* C23: on Export, confirm ends on Summary with a message, of success when the content
\* was rendered and the file written and of failure otherwise, whatever failed; copy
\* stays on Export with a message; back goes to Summary; the session goes on and
\* nothing but the message and the screen changes.
C23_ExportAlwaysReports ==
    (~quit /\ m.screen = screenExport) =>
        \A env \in Outcomes :
            LET confirm == Update(m, KeyMsg("enter"), env)
                copy == Update(m, KeyMsg("c"), env)
                rendered == exportFormats[m.exportFormat + 1] # "json" \/ env.genOk
            IN /\ OnlyMessageAndScreenChanged(confirm)
               /\ confirm.model.screen = screenSummary
               /\ confirm.model.message # ""
               /\ confirm.model.message = "Saved to file" <=> (rendered /\ env.saveOk)
               /\ OnlyMessageAndScreenChanged(copy)
               /\ copy.model.screen = screenExport
               /\ copy.model.message # ""
               /\ copy.model.message = "Copied to clipboard!" <=> (rendered /\ env.copyOk)
               /\ \A k \in {"esc", "b"} :
                     /\ OnlyMessageAndScreenChanged(Update(m, KeyMsg(k), env))
                     /\ Update(m, KeyMsg(k), env).model.screen = screenSummary

\* the summary after a confirm whose file could not be written
C23_Witness == ~quit /\ m.screen = screenSummary /\ m.message = "Failed to save"

(***************************************************************************)
(* Claims about the identity lookup.                                       *)
(***************************************************************************)
\* the fetch recorded in rec started the identity lookup
InvokedUser(rec) == rec.op = "fetch" /\ \E i \in DOMAIN rec.calls : rec.calls[i] = "user"

\* the fetch recorded in rec got the login from the lookup
ResolvedUser(rec) == InvokedUser(rec) /\ rec.err # "failed to get GitHub user"

\* C24, as claimed: the identity lookup runs at most once however many fetches are
\* made: a fetch that follows one which got the login does not run the lookup again.
C24_UserLookedUpOnce ==
    [][(ResolvedUser(last) /\ ops' = ops + 1) => ~InvokedUser(last')]_vars

(***************************************************************************)
(* Claims about the pattern filter.                                        *)
(***************************************************************************)
\* the positions of the list whose name the pattern matches
MatchingPositions(repos, pattern) == {i \in DOMAIN repos : matchPattern(pattern, repos[i])}

\* the k-th smallest of a set of positions
KthOf(S, k) == CHOOSE i \in S : Cardinality({j \in S : j <= i}) = k

\* C25: FilterReposByPattern returns the list itself for the empty pattern, and
\* otherwise the names of the list the pattern matches, each position once, in the
\* order of the list; filtering the result again with the pattern gives the result.
C25_FilterKeepsMatchesInOrder ==
    last.op = "filter" =>
        LET pos == MatchingPositions(last.repos, last.pattern)
        IN /\ last.pattern = <<>> => last.filtered = last.repos
           /\ last.pattern # <<>> =>
                 /\ Len(last.filtered) = Cardinality(pos)
                 /\ \A k \in DOMAIN last.filtered : last.filtered[k] = last.repos[KthOf(pos, k)]
           /\ FilterReposByPattern(last.filtered, last.pattern) = last.filtered

\* a list of three names of which the pattern keeps the first and the last
C25_Witness ==
    /\ last.op = "filter" /\ Len(last.repos) = 3 /\ last.pattern # <<>>
    /\ last.filtered = <<last.repos[1], last.repos[3]>>
    /\ last.repos[1] # last.repos[3]

\* the characters that make a pattern a glob
GlobChars == {"*", "?", "[", "]"}

\* name has pattern in it
HasSubstring(name, pattern) ==
    \E i \in 0..(Len(name) - Len(pattern)) :
        \A j \in DOMAIN pattern : name[i + j] = pattern[j]

\* the whole name is the pattern with each * replaced by some characters, any at all
\* and possibly none, and each ? by one character
WholeNameIs(name, pattern) ==
    LET stars == {i \in DOMAIN pattern : pattern[i] = "*"}
        spare == Len(name) - (Len(pattern) - Cardinality(stars))
    IN /\ spare >= 0
       /\ \E taken \in [stars -> 0..spare] :
             LET width == [i \in DOMAIN pattern |-> IF i \in stars THEN taken[i] ELSE 1]
                 before(i) == SumSeq(SubSeq(width, 1, i - 1))
             IN /\ SumSeq(width) = Len(name)
                /\ \A i \in DOMAIN pattern \ stars :
                      pattern[i] = "?" \/ name[before(i) + 1] = pattern[i]

\* C26: matchPattern takes no account of case; a pattern without * ? [ ] matches the
\* names that have it as a substring, any other pattern the names that are wholly the
\* pattern with * for any characters (a / among them, or none) and ? for one; so the
\* three pairs of the documentation match.
C26_MatchIsSubstringOrWholeGlob ==
    last.op = "match" =>
        LET pattern == ToLower(last.pattern)
            name == ToLower(last.name)
        IN /\ last.matched =
                 IF \A i \in DOMAIN pattern : pattern[i] \notin GlobChars
                 THEN HasSubstring(name, pattern)
                 ELSE WholeNameIs(name, pattern)
           /\ [pattern |-> last.pattern, name |-> last.name] \in DocCases => last.matched

\* Org/* has matched org/repo
C26_Witness ==
    /\ last.op = "match" /\ last.matched
    /\ last.pattern = <<"O", "r", "g", "/", "*">>
    /\ last.name = <<"o", "r", "g", "/", "r", "e", "p", "o">>

(***************************************************************************)
(* Claims about the commit data of a search.                               *)
(***************************************************************************)
\* the answers short enough to compare commit by commit
ShortAnswer == 8

\* C27: in the commit data of a search the repo list is the keys of the commit map,
\* each once, in ascending order of their bytes; every key has a commit, every commit
\* under a key names that key and has a message; the commits of a key are those of
\* the answer's items of that repository that have a message, in the answer's order,
\* and an item without a repository or without a message is nowhere.
C27_CommitDataWellFormed ==
    last.op = "search" =>
        LET items == ShapedItems(last.shape, last.count)
            whole == {i \in DOMAIN items : items[i].repo # <<>> /\ items[i].message # ""}
            of(r) == {i \in whole : items[i].repo = r}
        IN /\ Range(last.repoList) = DOMAIN last.commits
           /\ Len(last.repoList) = Cardinality(DOMAIN last.commits)
           /\ \A i \in DOMAIN last.repoList : \A j \in DOMAIN last.repoList :
                 i < j => StrLess(last.repoList[i], last.repoList[j])
           /\ DOMAIN last.commits = {items[i].repo : i \in whole}
           /\ \A r \in DOMAIN last.commits :
                 /\ r # <<>>
                 /\ Len(last.commits[r]) >= 1
                 /\ Len(last.commits[r]) = Cardinality(of(r))
                 /\ \A k \in DOMAIN last.commits[r] :
                       /\ last.commits[r][k].Repository = r
                       /\ last.commits[r][k].Message # ""
                       /\ last.count <= ShortAnswer =>
                             last.commits[r][k].Message = items[KthOf(of(r), k)].message

\* an answer of eight items of three repositories: two items have no repository, the
\* two of a/x have no message; B/x comes before a/y in the list and a/x is no key
C27_Witness ==
    /\ last.op = "search" /\ last.shape = "mixed" /\ last.count = 8
    /\ last.repoList = <<RepoBX, RepoAY>>
    /\ RepoAX \notin DOMAIN last.commits
    /\ Len(last.commits[RepoAY]) = 2 /\ Len(last.commits[RepoBX]) = 2

(***************************************************************************)
(* Claims about the invalidation of the cache.                             *)
(***************************************************************************)
\* every get of the directory is a miss
EveryGetMisses(fs) ==
    \A u \in Users : \A r \in StoredRanges : ~GetCommits(fs, u, r, now, TRUE).found

C29_LabelOfRange ==
    last.op = "display" =>
        LET a == last.startDate
            b == last.endDate
        IN IF a = b
           THEN last.label = a
           ELSE /\ Len(last.label) = Len(a) + Len(b) + 1
                /\ SubSeq(last.label, 1, Len(a)) = a
                /\ SubSeq(last.label, Len(a) + 2, Len(last.label)) = b
                /\ last.label[Len(a) + 1] = Arrow

\* the label of one day, which is that day
C29_Witness ==
    /\ last.op = "display" /\ last.startDate = last.endDate
    /\ last.label = CivilFromDays(StartDay)

(***************************************************************************)
(* Claims about the cursor of the repo list.                               *)
(***************************************************************************)
\* the cursor of mm is a position of its displayed list, and 0 when the list is empty
CursorInBounds(mm) ==
    LET shown == IF mm.filterActive THEN mm.filteredRepos ELSE mm.repoList
    IN /\ mm.cursor >= 0
       /\ shown # <<>> => mm.cursor < Len(shown)
       /\ shown = <<>> => mm.cursor = 0

\* C30: in every state the cursor is a position of the displayed list, and 0 when the
\* list is empty, and it is so again after any key of the repo list and of its filter,
\* whatever pattern is confirmed; so on RepoList the toggle finds a repository under
\* the cursor, or an empty list, which it leaves alone.
C30_CursorWithinDisplayedList ==
    /\ CursorInBounds(m)
    /\ (~quit /\ m.screen \in {screenRepoList, screenRepoFilter}) =>
          \A k \in ListKeys \cup TextKeys : \A typed \in Patterns :
             CursorInBounds(Update([m EXCEPT !.filterInput = typed], KeyMsg(k), BaseEnv).model)
    /\ (~quit /\ m.screen = screenRepoList) =>
          LET toggle == Update(m, KeyMsg(" "), BaseEnv)
          IN /\ toggle.cmd = "none"
             /\ getDisplayRepos(m) = <<>> => toggle.model.selected = m.selected

\* the cursor on the last of several displayed repositories, where a move down
\* leaves it
C30_Witness ==
    /\ ~quit /\ m.screen = screenRepoList /\ m.cursor >= 1
    /\ m.cursor = Len(getDisplayRepos(m)) - 1
    /\ Update(m, KeyMsg("j"), BaseEnv).model.cursor = m.cursor

(***************************************************************************)
(* Claims about the displayed list and the statistics on display.          *)
(***************************************************************************)
\* the screens that show the repositories of the commit data
RepoScreens == {screenRepoList, screenSummary, screenStats, screenExport}

\* shown is list with some of its elements left out
IsSubsequence(shown, list) ==
    \E keep \in SUBSET DOMAIN list :
        /\ Cardinality(keep) = Len(shown)
        /\ \A k \in DOMAIN shown : shown[k] = list[KthOf(keep, k)]

\* C31: on RepoList, Summary, Stats and Export the displayed list is a subsequence of
\* the repo list: the repositories of the repo list that the pattern in the filter
\* input matches when a filter is active, the repo list itself when none is.
C31_DisplayedListIsOfCurrentData ==
    (~quit /\ m.screen \in RepoScreens) =>
        /\ IsSubsequence(getDisplayRepos(m), m.repoList)
        /\ m.filterActive =>
              /\ m.filterInput # <<>>
              /\ getDisplayRepos(m) = FilterReposByPattern(m.repoList, m.filterInput)
        /\ ~m.filterActive => getDisplayRepos(m) = m.repoList
        /\ Range(m.repoList) = DOMAIN m.commits

\* a second fetch has completed under a filter confirmed before it: the list on
\* display is two of the three repositories of the new data
C31_Witness ==
    /\ ~quit /\ m.screen = screenRepoList /\ m.filterActive /\ fetches = 2
    /\ tasks = <<>> /\ inbox = <<>>
    /\ Len(m.repoList) = 3 /\ Len(m.filteredRepos) = 2

\* the totals and the counts per repository of statistics
Counts(st) ==
    [TotalCommits |-> st.TotalCommits, TotalRepositories |-> st.TotalRepositories,
     CommitsPerRepo |-> st.CommitsPerRepo]

\* the screens that show what was computed from the commit data and the selection
StatsScreens == {screenStats, screenSummary}

\* the events that can reach a handler: a key, a tick of the spinner, the completion
\* of a fetch
AnyEvents ==
    {e.msg : e \in NextKeyEvents} \cup {TickMsg}
    \cup {commitsLoadedMsg(EmptyData.Commits, <<>>, "", None)}
    \cup {inbox[i] : i \in DOMAIN inbox}

\* C32: on Stats (and on Summary) the statistics held have the total of commits, the
\* number of repositories and the counts per repository that CalculateStatistics gives
\* for the commits and the selection held, whatever the order of the map; every key
\* that opens Stats or Summary from the repo list or Stats from the summary computes
\* them; and no event handled on Stats or Summary changes the commits or the selection.
C32_StatisticsAreOfCurrentData ==
    ~quit =>
        /\ m.screen \in StatsScreens =>
              /\ \A o \in Orders(DOMAIN m.commits) :
                    Counts(m.stats) = Counts(CalculateStatistics(m.commits, m.selected, o))
              /\ \A msg \in AnyEvents :
                    LET after == Update(m, msg, BaseEnv).model
                    IN after.commits = m.commits /\ after.selected = m.selected
        /\ m.screen \in {screenRepoList, screenSummary} =>
              \A k \in {"enter", "s"}, o \in Orders(DOMAIN m.commits) :
                 LET after == Update(m, KeyMsg(k), [BaseEnv EXCEPT !.order = o]).model
                 IN (after.screen \in StatsScreens /\ after.screen # m.screen) =>
                       after.stats = CalculateStatistics(m.commits, m.selected, o)

\* Stats opened on two repositories of which one is selected, after statistics were
\* computed for another selection
C32_Witness ==
    /\ ~quit /\ m.screen = screenStats
    /\ Cardinality(DOMAIN m.commits) = 2
    /\ m.stats.TotalRepositories = 1
    /\ m.stats.TotalCommits > 0
    /\ fetches = 1 /\ ops >= 6

(***************************************************************************)
(* The Loading screen under fair scheduling.                               *)
(***************************************************************************)
\* C33: Loading is no trap: when every started fetch runs to its return and the event
\* loop takes every message posted, a session on Loading comes to RepoList, to the
\* date range selection or to its exit.
C33_LoadingIsLeft ==
    (~quit /\ m.screen = screenLoading)
        ~> (quit \/ m.screen \in {screenRepoList, screenDateRange})

\* Loading entered a second time, with the completion of the abandoned fetch waiting
\* and the new fetch about to call the search
C33_Witness ==
    /\ ~quit /\ m.screen = screenLoading /\ fetches = 2
    /\ Len(inbox) = 1 /\ Len(tasks) = 1 /\ tasks[1].pc = "call"

(***************************************************************************)
(* Claims about the cache behind a fetch.                                  *)
(***************************************************************************)
\* C34: when the cache could not be initialised at startup, every fetch with a valid
\* range and a known login behaves as a cache miss: it calls the search, returns what
\* the search gave (so that a completion is posted), leaves the cache directory alone
\* and does not panic on the cache that is not there.
C34_FetchWithoutCacheIsAMiss ==
    (last.op = "startupFetch" /\ last.cacheErr # None) =>
        /\ ~last.panicked
        /\ (last.invalid = None /\ last.user # None) => last.calls = <<"user", "search">>
        /\ files = last.before

\* a step in which a GetCommitsForRange has returned an error
FetchFails == ops' = ops + 1 /\ last'.op = "fetch" /\ ~last'.ok

\* C35 as stated: a fetch that fails leaves the cache directory as it was.
C35_FailedFetchLeavesCacheUnchanged == [][FetchFails => files' = files]_vars

\* C35: a fetch that fails writes nothing: every file but the one of the requested
\* user and query is as it was, and that one is as it was or has been removed by the
\* cache read because it was expired or no entry could be read from it; so no file
\* holds an entry it did not hold before.
C35_FailedFetchWritesNothing ==
    [][FetchFails =>
          \A k \in DOMAIN files \cup DOMAIN files' :
             \/ FileAt(files', k) = FileAt(files, k)
             \/ /\ k = last'.key
                /\ FileAt(files', k).kind = "absent"
                /\ FileAt(files, k).kind = "garbage" \/ IsExpired(files[k], now)]_vars

\* the search has failed after a cache read that an unreadable directory turned into
\* a miss, and the entry of the requested query is where it was
C35_Witness ==
    /\ last.op = "fetch" /\ ~last.ok
    /\ last.calls = <<"user", "search">>
    /\ last.before.kind = "entry"
    /\ FileAt(files, last.key) = last.before

\* a GetCommits has run on what a successful SetCommits left, time having passed or not
GetAfterSet == last.op = "get" /\ last.after.op = "set" /\ last.after.err = None

\* the time to live SetCommits gives the entry of the set before the get
TTLOfSet == IF isToday(last.after.range, last.after.at, tz) THEN TTLToday ELSE TTLOlder

C37_ErrorStateTakesOnlyRetryAndQuit ==
    (~quit /\ m.screen = screenRepoList /\ m.err # None) =>
        /\ Update(m, KeyMsg("r"), BaseEnv).model.screen = screenDateRange
        /\ \A k \in {"q", "ctrl+c"} : Update(m, KeyMsg(k), BaseEnv).cmd = "quit"
        /\ \A k \in ListKeys \ {"r", "q", "ctrl+c"} :
              LET after == Update(m, KeyMsg(k), [BaseEnv EXCEPT !.order = <<>>]).model
              IN after.screen = screenRepoList /\ after.selected = m.selected

(***************************************************************************)
(* Claims about the date range a fetch is started with.                    *)
(***************************************************************************)
\* the day number of a date text that is a date
DayOf(text) == ParseDate(text).at.day

\* C38: the session is on Loading only with a date range of two dates, the start no
\* later than the end and the end no later than today's date in the session's zone.
C38_LoadingRangeIsOrderedAndPast ==
    (~quit /\ m.screen = screenLoading) =>
        /\ ParseDate(m.startDate).ok /\ ParseDate(m.endDate).ok
        /\ DayOf(m.startDate) <= DayOf(m.endDate)
        /\ DayOf(m.endDate) <= LocalDay(now, tz)

\* the calendar days of the range a preset resolves to, both ends counted
DaysCovered(preset) ==
    LET after == Update([m EXCEPT !.dateRangeIdx =
                            CHOOSE i \in 0..(Len(DateRangePresets) - 1) :
                               DateRangePresets[i + 1] = preset],
                        KeyMsg("enter"), BaseEnv).model
    IN DayOf(after.endDate) - DayOf(after.startDate) + 1

\* C39: confirmed on the date range selection, the preset of the last 7 days covers
\* exactly 7 calendar days and the preset of the last 30 days exactly 30, the last of
\* them today.
C39_PresetsCoverSevenAndThirtyDays ==
    (~quit /\ m.screen = screenDateRange) =>
        /\ DaysCovered("week") = 7
        /\ DaysCovered("month") = 30
        /\ \A preset \in {"week", "month"} :
              GetDateRange(preset, now, tz).EndDate = TodayText(now, tz)

====
